---- MODULE Spec2Model ----
(***************************************************************************)
(* Model of the crawl-ai ingestion pipeline (src/src/scheduler/tasks.py    *)
(* and the code it drives).                                                *)
(*                                                                         *)
(* SpecCrawl    : the crawl coordinator.  Celery tasks crawl_source are    *)
(*                dispatched by the periodic poll, the manual trigger and  *)
(*                the schedule run, executed by the worker pool, retried   *)
(*                on failure, and save their results through one database  *)
(*                transaction each.                                        *)
(* SpecSave     : SpecCrawl without upstream failures and manual updates.  *)
(* SpecRetry    : SpecCrawl with upstream failures only.                   *)
(* SpecPipeline : the enrich and notify stages over the stored contents.   *)
(* SpecEnrich   : the enrich stage alone; SpecEnrichFair adds the fairness *)
(*                of the beat schedule and of the workers.                 *)
(* SpecRequest, SpecParallel, SpecCollaborate : AIOrchestrator.            *)
(* SpecMatch    : KeywordMatcher.match without the semantic pass.          *)
(* SpecSemantic : KeywordMatcher.match with the semantic pass.             *)
(* SpecLookup   : add_keyword_group while matches are in progress.         *)
(* SpecHeal     : one source in detail, BaseCrawler.crawl step by step     *)
(*                with its fetch attempts and self-heal, and the clock.    *)
(***************************************************************************)
EXTENDS Integers, Sequences, FiniteSets, TLC

(***************************************************************************)
(* Bounds of the model.                                                    *)
(***************************************************************************)
MaxTasks == 2        \* crawl_source tasks dispatched in one behaviour
MaxFailures == 4     \* crawls the upstream sites fail in one behaviour
MaxJobs == 3         \* process_content / send_notifications tasks dispatched

Sources == {"s1", "s2"}      \* Source rows (never destroyed by the core)
Hashes == {"h1", "h2"}       \* content hashes the upstream feeds can yield
Tasks == 1..MaxTasks
Jobs == 1..MaxJobs

(***************************************************************************)
(* Program constants.                                                      *)
(***************************************************************************)
max_retries == 3             \* @shared_task(bind=True, max_retries=3, ...)
worker_concurrency == 4      \* celery_app.conf worker_concurrency
ErrorThreshold == 3          \* if source.error_count >= 3

NULL == "null"            \* a NULL text column
NoScore == 0 - 1          \* a NULL score column (scores are 0..10, in tenths)
NoTime == 0               \* a NULL timestamp column (the clock starts at 1)

SourceStatus == {"active", "inactive", "error", "pending"}
ContentStatus == {"new", "processed", "notified", "archived"}
JobStatus == {"pending", "running", "completed", "failed", "cancelled"}

VARIABLES
    source,      \* committed Source rows: source id -> row
    contents,    \* committed Content rows (a set of rows, each with its id)
    jobs,        \* committed JobExecution rows, in commit order
    tasks,       \* crawl_source tasks: queue message, or the running execution
    dispatched,  \* number of crawl_source tasks dispatched so far
    ptasks,      \* process_content and send_notifications tasks
    now,         \* the clock read by datetime.utcnow() in the two stages
    available,   \* the providers whose API key is configured
    req,         \* the call of AIOrchestrator.request in progress
    par,         \* the call of AIOrchestrator.request_parallel in progress
    collab,      \* the call of AIOrchestrator.collaborate in progress
    matcher,     \* a KeywordMatcher and its last match
    crawler,     \* the crawler of a crawl_source execution and its crawl() call
    execution,   \* that execution of crawl_source, followed step by step
    db           \* the Source row it crawls, the stored hashes, the number of jobs

healVars == <<crawler, execution, db>>
orchVars == <<available, req, par, collab>>
coreVars == <<source, contents, jobs, tasks, dispatched, ptasks, now, healVars>>
aiVars == <<available, req, par, collab, matcher, healVars>>
storeVars == <<source, contents, jobs, tasks, dispatched, ptasks, now, matcher, healVars>>
pipeVars == <<ptasks, now, aiVars>>
crawlOnlyVars == <<source, jobs, tasks, dispatched, aiVars>>
vars ==
    <<source, contents, jobs, tasks, dispatched, ptasks, now, available, req, par,
      collab, matcher, crawler, execution, db>>

(***************************************************************************)
(* Helpers.                                                                *)
(***************************************************************************)
Range(f) == {f[k] : k \in DOMAIN f}

RECURSIVE SetToSeq(_)
SetToSeq(S) ==
    IF S = {} THEN <<>>
    ELSE LET x == CHOOSE y \in S : TRUE IN <<x>> \o SetToSeq(S \ {x})

\* What one crawler.crawl() can return.  A result stands for its content_hash
\* = sha256(url + title + content): an empty feed, one entry, the same entry
\* twice, and two entries in either order.
CrawlResults == {<<>>, <<"h1">>, <<"h1", "h1">>, <<"h1", "h2">>, <<"h2", "h1">>}

(***************************************************************************)
(* The database session.  database.py is not part of the sources: the      *)
(* session is the SQLAlchemy default (autoflush before every query) and    *)
(* get_db_context commits when its block is left, as the callers rely on   *)
(* (no caller commits itself) and as the coordinator's error accounting    *)
(* requires (the source and job updates of a failed crawl are stored).     *)
(***************************************************************************)
Autoflush == TRUE
CommitOnError == TRUE

(***************************************************************************)
(* Rows.                                                                   *)
(***************************************************************************)
\* create_source: status=SourceStatus.ACTIVE, error_count default 0
NewSource == [status |-> "active", error_count |-> 0, last_error |-> NULL]

\* A JSON column (categories, entities) that is NULL.
NoJSON == {NULL}

\* Content(source_id=..., content_hash=..., status=ContentStatus.NEW); the
\* enrichment columns are nullable and unset.
NewContent(id, s, h) ==
    [id |-> id, source_id |-> s, content_hash |-> h, status |-> "new",
     summary |-> NULL, categories |-> NoJSON, entities |-> NoJSON,
     sentiment |-> NULL,
     relevance_score |-> NoScore, importance_score |-> NoScore,
     matched_keywords |-> NULL, matched_keyword_groups |-> NULL,
     notified_at |-> NoTime, sent |-> 0]

\* No response of a model (yet).
NoResponse == [error |-> "none", form |-> "none", score |-> [kind |-> "absent", value |-> 0]]

\* A process_content or send_notifications task that has not been dispatched.
\* results is what manager.notify reported, response what the model answered
\* and result what processor.process returned.
IdleJob ==
    [kind |-> "none", content |-> <<0, 0>>, pc |-> "idle",
     loaded |-> NewContent(<<0, 0>>, "s1", "h1"), results |-> "none",
     response |-> NoResponse, result |-> NULL]

\* process_content.delay(content_id) / send_notifications.delay(content_id)
QueuedJob(kind, id) == [IdleJob EXCEPT !.kind = kind, !.content = id, !.pc = "queued"]

\* A crawl_source task that has not been dispatched.
IdleTask ==
    [source |-> "s1", origin |-> "none", retries |-> 0, pc |-> "idle",
     loaded |-> [status |-> "active", error_count |-> 0],
     results |-> <<>>, i |-> 0, pending |-> {}, flushed |-> {},
     items_saved |-> 0, exc |-> "none"]

\* crawl_source.delay(source_id): a message on the crawl queue.
QueuedTask(s, origin, retries, exc) ==
    [IdleTask EXCEPT !.source = s, !.origin = origin, !.retries = retries,
                     !.pc = "queued", !.exc = exc]

\* A task whose last execution has ended and that is not retried.
DoneTask(t, exc) ==
    [IdleTask EXCEPT !.source = tasks[t].source, !.origin = tasks[t].origin,
                     !.retries = tasks[t].retries, !.pc = "done", !.exc = exc]

Running(t) == tasks[t].pc \in {"crawl", "save"}

StoredHashes == {c.content_hash : c \in contents}

\* The hashes of the rows an execution has INSERTed and not yet committed.
FlushedHashes(t) == {tasks[t].results[k] : k \in tasks[t].flushed}

(***************************************************************************)
(* Content.content_hash is unique=True: an INSERT of a hash that a         *)
(* committed row (or a row of the same transaction) holds fails with       *)
(* IntegrityError; one that an uncommitted row of another transaction      *)
(* holds waits for that transaction to end.                                *)
(***************************************************************************)
\* (a variant without the unique index)
InsertAlways(t, h) == "ok"

InsertOutcome(t, h) ==
    IF h \in StoredHashes \cup FlushedHashes(t) THEN "error"
    ELSE IF \E u \in Tasks \ {t} : Running(u) /\ h \in FlushedHashes(u) THEN "wait"
    ELSE "ok"

Min(S) == CHOOSE x \in S : \A y \in S : x <= y

\* The execution is at a point where the session flushes: before a query
\* (autoflush) or at the commit that ends the block.
AtFlush(t) ==
    /\ tasks[t].pc = "save"
    /\ tasks[t].pending # {}
    /\ (Autoflush \/ tasks[t].i > Len(tasks[t].results))

\* The hash of the next row the session INSERTs (rows are flushed in the
\* order they were added).
NextInsert(t) == tasks[t].results[Min(tasks[t].pending)]

\* The transaction an execution's INSERT waits for, if any.
Blocker(t) ==
    IF AtFlush(t) /\ InsertOutcome(t, NextInsert(t)) = "wait"
    THEN {u \in Tasks \ {t} : Running(u) /\ NextInsert(t) \in FlushedHashes(u)}
    ELSE {}

RECURSIVE WaitsFor(_, _)
\* The transactions t waits for, directly or through a chain of at most n waits.
WaitsFor(t, n) ==
    IF n = 0 THEN {}
    ELSE Blocker(t) \cup UNION {WaitsFor(u, n - 1) : u \in Blocker(t)}

(***************************************************************************)
(* The AI orchestrator (core/ai_orchestrator.py).                          *)
(***************************************************************************)
AIProvider == {"openai", "anthropic", "google", "perplexity"}

AITaskType ==
    {"search", "summarize", "analyze", "classify", "extract", "generate_code",
     "multimodal"}

\* The order of self.clients, which get_available_providers follows.
ClientOrder == <<"openai", "anthropic", "google", "perplexity">>

TASK_PROVIDER_MAP ==
    [t \in AITaskType |->
        CASE t = "search" -> <<"perplexity", "openai">>
          [] t = "summarize" -> <<"openai", "anthropic", "google">>
          [] t = "analyze" -> <<"anthropic", "openai", "google">>
          [] t = "classify" -> <<"openai", "anthropic", "google">>
          [] t = "extract" -> <<"anthropic", "openai", "google">>
          [] t = "generate_code" -> <<"anthropic", "openai">>
          [] t = "multimodal" -> <<"google", "openai">>]

\* What awaiting client.complete under asyncio.wait_for can do: return a
\* response, raise, or run into the timeout.
Completions == {"ok", "raise", "timeout"}

\* [p for p in seq if p in S]
Filter(seq, S) == SelectSeq(seq, LAMBDA p : p \in S)

get_available_providers == Filter(ClientOrder, available)

get_providers_for_task(task_type) ==
    Filter(TASK_PROVIDER_MAP[task_type], Range(get_available_providers))

NoError == [provider |-> NULL, kind |-> NULL]

\* No call of request in progress.  invoked lists the calls of complete with
\* what each did, failed the providers logged as failed or timed out.
IdleRequest ==
    [pc |-> "idle", prompt |-> <<>>, task_type |-> "summarize", preferred |-> NULL,
     providers |-> <<>>, i |-> 0, invoked |-> <<>>, failed |-> <<>>,
     last_error |-> NoError, response |-> NULL, error |-> NULL]

\* (a variant that tries the preferred provider first and then the others)
BeginRequestPreferredFirst(prompt, task_type, preferred) ==
    LET rest == get_providers_for_task(task_type)
        providers ==
            IF preferred # NULL /\ preferred \in available
            THEN <<preferred>> \o Filter(rest, AIProvider \ {preferred})
            ELSE rest
    IN
    IF providers = <<>>
    THEN [IdleRequest EXCEPT !.pc = "raised", !.prompt = prompt,
              !.task_type = task_type, !.preferred = preferred,
              !.error = "No AI providers available"]
    ELSE [IdleRequest EXCEPT !.pc = "loop", !.prompt = prompt,
              !.task_type = task_type, !.preferred = preferred,
              !.providers = providers, !.i = 1]

\* (a variant that falls back to every available provider)
BeginRequestAnyProvider(prompt, task_type, preferred) ==
    LET listed ==
            IF preferred # NULL /\ preferred \in available
            THEN <<preferred>>
            ELSE get_providers_for_task(task_type)
        providers == IF listed = <<>> THEN get_available_providers ELSE listed
    IN
    IF providers = <<>>
    THEN [IdleRequest EXCEPT !.pc = "raised", !.prompt = prompt,
              !.task_type = task_type, !.preferred = preferred,
              !.error = "No AI providers available"]
    ELSE [IdleRequest EXCEPT !.pc = "loop", !.prompt = prompt,
              !.task_type = task_type, !.preferred = preferred,
              !.providers = providers, !.i = 1]

\* request up to its loop: the providers are the preferred one if it is given
\* and available, else those of the task; none raises RuntimeError.
BeginRequest(prompt, task_type, preferred) ==
    LET providers ==
            IF preferred # NULL /\ preferred \in available
            THEN <<preferred>>
            ELSE get_providers_for_task(task_type)
    IN
    IF providers = <<>>
    THEN [IdleRequest EXCEPT !.pc = "raised", !.prompt = prompt,
              !.task_type = task_type, !.preferred = preferred,
              !.error = "No AI providers available"]
    ELSE [IdleRequest EXCEPT !.pc = "loop", !.prompt = prompt,
              !.task_type = task_type, !.preferred = preferred,
              !.providers = providers, !.i = 1]

\* The exception the except branches keep in last_error.
ErrorOf(provider, outcome) ==
    [provider |-> provider,
     kind |-> IF outcome = "timeout" THEN "TimeoutError" ELSE "Exception"]

\* (a variant that goes on to the next provider after a success)
TryProviderKeepsGoing(r, outcome) ==
    LET p == r.providers[r.i]
        last == r.i = Len(r.providers)
        log == Append(r.invoked, [provider |-> p, outcome |-> outcome])
    IN
    IF outcome = "ok"
    THEN [r EXCEPT !.pc = IF last THEN "returned" ELSE "loop", !.invoked = log,
                   !.i = r.i + 1, !.response = p]
    ELSE [r EXCEPT !.invoked = log, !.failed = Append(r.failed, p),
                   !.last_error = ErrorOf(p, outcome), !.i = r.i + 1,
                   !.pc = IF last THEN "raised" ELSE "loop",
                   !.error = IF last THEN "All AI providers failed" ELSE NULL]

\* (a variant that keeps the first error and gives up on a timeout)
TryProviderFirstError(r, outcome) ==
    LET p == r.providers[r.i]
        last == r.i = Len(r.providers) \/ outcome = "timeout"
        log == Append(r.invoked, [provider |-> p, outcome |-> outcome])
    IN
    IF outcome = "ok"
    THEN [r EXCEPT !.pc = "returned", !.invoked = log, !.response = p]
    ELSE [r EXCEPT !.invoked = log, !.failed = Append(r.failed, p),
                   !.last_error = IF @ = NoError THEN ErrorOf(p, outcome) ELSE @,
                   !.i = r.i + 1,
                   !.pc = IF last THEN "raised" ELSE "loop",
                   !.error = IF last THEN "All AI providers failed" ELSE NULL]

\* One iteration of the loop of request: client.complete of providers[i] is
\* awaited; its response is returned, or the failure is logged and kept in
\* last_error, and after the last provider RuntimeError is raised.
TryProvider(r, outcome) ==
    LET p == r.providers[r.i]
        last == r.i = Len(r.providers)
        log == Append(r.invoked, [provider |-> p, outcome |-> outcome])
    IN
    IF outcome = "ok"
    THEN [r EXCEPT !.pc = "returned", !.invoked = log, !.response = p]
    ELSE [r EXCEPT !.invoked = log, !.failed = Append(r.failed, p),
                   !.last_error = ErrorOf(p, outcome), !.i = r.i + 1,
                   !.pc = IF last THEN "raised" ELSE "loop",
                   !.error = IF last THEN "All AI providers failed" ELSE NULL]

\* No call of request_parallel in progress.  tasks are the providers whose
\* complete is awaited by gather, results what each did ("pending" until then).
IdleParallel ==
    [pc |-> "idle", given |-> <<>>, tasks |-> <<>>, results |-> <<>>,
     responses |-> <<>>]

\* The placeholder of a prompt template.
Placeholder == "{previous_response}"

\* No call of collaborate in progress.  responses holds, for each step that
\* returned, the response and the prompt that was sent for it.
IdleCollab ==
    [pc |-> "idle", pipeline |-> <<>>, initial_prompt |-> <<>>,
     current_input |-> <<>>, responses |-> <<>>]

\* A KeywordMatcher without keywords that has matched nothing.
IdleMatcher ==
    [pc |-> "idle", keywords |-> <<>>, text |-> {}, results |-> {},
     final_results |-> <<>>, enable_semantic |-> FALSE, use_semantic |-> "False",
     min_score |-> 5, semantic_calls |-> 0, semantic |-> <<>>,
     tables |-> <<>>, read |-> <<>>, at_read |-> <<>>, adds |-> 0]

\* CrawlerConfig: of the selectors the list selector decides whether parse
\* finds items; it is None (no selector), or written for a layout of the page.
CrawlerConfig(list_selector) == [list_selector |-> list_selector]

\* None where a CrawlerConfig or a dict of selectors is expected.
NoConfig == CrawlerConfig("None")

\* What a GET returned: the layout of the document and its entries.
EmptyDocument == [layout |-> "none", entries |-> <<>>]

\* No crawler has been constructed.  attempt and last are the number of GETs
\* of the fetch call in progress and what the last one met; heals and
\* model_calls count the calls of _attempt_self_heal and of ai.request
\* during the crawl() call, new_config is what _attempt_self_heal returned.
\* client is self._client ("none" before the first fetch, "open", "closed"
\* once close() has released it) and clients the number of httpx.AsyncClient
\* objects the instance has created.
IdleCrawler ==
    [pc |-> "idle", source_type |-> "rss", config |-> CrawlerConfig(NULL),
     attempt |-> 0, last |-> "none", results |-> <<>>, exc |-> "none",
     heals |-> 0, model_calls |-> 0, new_config |-> NoConfig,
     client |-> "none", clients |-> 0]

\* Source(source_type=..., config=...): status ACTIVE, error_count 0,
\* config_version 1, the other columns NULL.
NewSourceRow(source_type, config, interval) ==
    [source_type |-> source_type, config |-> config, status |-> "active",
     crawl_interval_minutes |-> interval, last_crawled_at |-> NoTime,
     error_count |-> 0, last_error |-> NULL,
     ai_generated_config |-> NoConfig, config_version |-> 1]

\* JobExecution(job_type="crawl", status=RUNNING, started_at=utcnow()):
\* finished_at NULL, items_collected and items_saved default 0.
JobExecution(started_at) ==
    [status |-> "running", started_at |-> started_at, finished_at |-> NoTime,
     items_collected |-> 0, items_saved |-> 0, error_message |-> NULL]

\* No crawl_source message of the source is queued or executed.  job is the
\* JobExecution row of the latest execution, open or closed (a row is not
\* written again once its execution has ended), loaded the Source row as that
\* execution read it.
IdleExecution ==
    [pc |-> "idle", origin |-> "none", retries |-> 0,
     job |-> JobExecution(NoTime),
     loaded |-> NewSourceRow("rss", CrawlerConfig(NULL), 0)]

\* The database before the source is created: its row, the number of
\* JobExecution rows and the content_hash values of the Content rows.
EmptyDb ==
    [source |-> NewSourceRow("rss", CrawlerConfig(NULL), 0), crawls |-> 0,
     hashes |-> {}]

\* No key is configured, nothing is asked of the orchestrator and no source
\* is followed in detail.
AIIdle ==
    /\ available = {}
    /\ req = IdleRequest
    /\ par = IdleParallel
    /\ collab = IdleCollab
    /\ matcher = IdleMatcher
    /\ crawler = IdleCrawler
    /\ execution = IdleExecution
    /\ db = EmptyDb

\* request(prompt, task_type, preferred_provider) is called.
request(task_type, preferred) ==
    /\ req.pc = "idle"
    /\ req' = BeginRequest(<<"prompt">>, task_type, preferred)
    /\ UNCHANGED <<available, par, collab>>
    /\ UNCHANGED storeVars

\* The awaited client.complete of the request ends.
complete(outcome) ==
    /\ req.pc = "loop"
    /\ req' = TryProvider(req, outcome)
    /\ UNCHANGED <<available, par, collab>>
    /\ UNCHANGED storeVars

\* Any subset of the four keys may be configured.
InitRequest ==
    /\ source = [s \in Sources |-> NewSource]
    /\ contents = {}
    /\ jobs = <<>>
    /\ tasks = [t \in Tasks |-> IdleTask]
    /\ dispatched = 0
    /\ ptasks = [j \in Jobs |-> IdleJob]
    /\ now = 1
    /\ available \in SUBSET AIProvider
    /\ req = IdleRequest
    /\ par = IdleParallel
    /\ collab = IdleCollab
    /\ matcher = IdleMatcher
    /\ crawler = IdleCrawler
    /\ execution = IdleExecution
    /\ db = EmptyDb

NextRequest ==
    \/ \E t \in AITaskType, p \in AIProvider \cup {NULL} : request(t, p)
    \/ \E o \in Completions : complete(o)

SpecRequest == InitRequest /\ [][NextRequest]_vars

(***************************************************************************)
(* AIOrchestrator.request_parallel.                                        *)
(***************************************************************************)
\* The providers argument: None, or a list of providers.
NoList == <<"None">>

ParallelLists ==
    {NoList, <<"openai", "anthropic">>, <<"anthropic", "perplexity", "openai">>,
     <<"google", "google">>}

\* (a variant of gather without return_exceptions: a failure is raised)
GatheredRaises(p, results) ==
    IF \E k \in DOMAIN results : results[k] = "pending" THEN [p EXCEPT !.results = results]
    ELSE IF \E k \in DOMAIN results : results[k] # "ok"
         THEN [p EXCEPT !.pc = "raised", !.results = results]
         ELSE [p EXCEPT !.pc = "returned", !.results = results,
                        !.responses = p.tasks]

\* results = await asyncio.gather(*tasks, return_exceptions=True) once every
\* task has ended, and the loop that keeps the AIResponse results.
Gathered(p, results) ==
    IF \E k \in DOMAIN results : results[k] = "pending" THEN [p EXCEPT !.results = results]
    ELSE LET ok == {k \in DOMAIN results : results[k] = "ok"}
             keep[k \in 0..Len(results)] ==
                IF k = 0 THEN <<>>
                ELSE IF k \in ok THEN Append(keep[k - 1], p.tasks[k])
                     ELSE keep[k - 1]
         IN [p EXCEPT !.pc = "returned", !.results = results,
                      !.responses = keep[Len(results)]]

\* request_parallel(prompt, providers) up to the gather: one wait_for per
\* provider of the list (of the available providers for None) that is
\* available.
request_parallel(given) ==
    LET providers == IF given = NoList THEN get_available_providers ELSE given
        tasks0 == Filter(providers, available)
    IN
    /\ par.pc = "idle"
    /\ par' = Gathered([IdleParallel EXCEPT !.pc = "gather",
                                            !.given = given,
                                            !.tasks = tasks0],
                       [k \in DOMAIN tasks0 |-> "pending"])
    /\ UNCHANGED <<available, req, collab>>
    /\ UNCHANGED storeVars

\* One of the awaited client.complete calls ends, in any order.
parallel_complete(k, outcome) ==
    /\ par.pc = "gather"
    /\ k \in DOMAIN par.results
    /\ par.results[k] = "pending"
    /\ par' = Gathered(par, [par.results EXCEPT ![k] = outcome])
    /\ UNCHANGED <<available, req, collab>>
    /\ UNCHANGED storeVars

NextParallel ==
    \/ \E given \in ParallelLists : request_parallel(given)
    \/ \E k \in DOMAIN par.results, o \in Completions : parallel_complete(k, o)

SpecParallel == InitRequest /\ [][NextParallel]_vars

(***************************************************************************)
(* AIOrchestrator.collaborate.  A prompt, a template and the content of a   *)
(* response are sequences of words; a template holds the placeholder where *)
(* the input goes.                                                         *)
(***************************************************************************)
MaxSteps == 2        \* the longest pipeline given to collaborate

\* The (task_type, prompt_template) pairs of a pipeline: the placeholder at
\* the end, twice, or not at all.
Steps ==
    {[task_type |-> "search", template |-> <<"Search for:", Placeholder>>],
     [task_type |-> "summarize", template |-> <<Placeholder, "or", Placeholder>>],
     [task_type |-> "analyze", template |-> <<"Analyze trends">>]}

Pipelines == UNION {[1..n -> Steps] : n \in 0..MaxSteps}

InitialPrompts == {<<"Latest", "news">>}

\* What a response can hold; the text of the placeholder itself is one.
ResponseContents == {<<"r">>, <<"s", Placeholder>>}

RECURSIVE Format(_, _)
\* prompt_template.format(previous_response=current_input): every placeholder
\* of the template is replaced by the input, which is not scanned again.
Format(template, input) ==
    IF template = <<>> THEN <<>>
    ELSE (IF Head(template) = Placeholder THEN input ELSE <<Head(template)>>)
            \o Format(Tail(template), input)

\* (a variant that formats every step with the initial prompt)
NextStepInitialInput(c) ==
    LET k == Len(c.responses) + 1 IN
    IF k > Len(c.pipeline)
    THEN [collab |-> [c EXCEPT !.pc = "returned"], req |-> IdleRequest]
    ELSE LET r == BeginRequest(Format(c.pipeline[k].template, c.initial_prompt),
                               c.pipeline[k].task_type, NULL)
         IN [collab |-> [c EXCEPT !.pc = IF r.pc = "raised" THEN "raised" ELSE "running"],
             req |-> r]

\* The loop of collaborate up to its next await: after the last step the
\* responses are returned; else the prompt of the next step is formatted with
\* current_input and request is called, whose exception leaves collaborate.
NextStep(c) ==
    LET k == Len(c.responses) + 1 IN
    IF k > Len(c.pipeline)
    THEN [collab |-> [c EXCEPT !.pc = "returned"], req |-> IdleRequest]
    ELSE LET r == BeginRequest(Format(c.pipeline[k].template, c.current_input),
                               c.pipeline[k].task_type, NULL)
         IN [collab |-> [c EXCEPT !.pc = IF r.pc = "raised" THEN "raised" ELSE "running"],
             req |-> r]

\* collaborate(initial_prompt, pipeline) is called.
collaborate(initial_prompt, pipeline) ==
    LET next == NextStep([IdleCollab EXCEPT !.pipeline = pipeline,
                                            !.initial_prompt = initial_prompt,
                                            !.current_input = initial_prompt])
    IN
    /\ collab.pc = "idle"
    /\ req.pc = "idle"
    /\ collab' = next.collab
    /\ req' = next.req
    /\ UNCHANGED <<available, par>>
    /\ UNCHANGED storeVars

\* The awaited client.complete of the request of the current step ends: the
\* request goes on, raises, or returns its response, which is appended and
\* whose content becomes the input of the next step.
collaborate_complete(outcome, content) ==
    LET r == TryProvider(req, outcome)
        next == NextStep([collab EXCEPT
                            !.responses = Append(@, [provider |-> r.response,
                                                     content |-> content,
                                                     task_type |-> r.task_type,
                                                     prompt |-> r.prompt]),
                            !.current_input = content])
    IN
    /\ collab.pc = "running"
    /\ req.pc = "loop"
    /\ IF r.pc = "returned"
       THEN collab' = next.collab /\ req' = next.req
       ELSE /\ req' = r
            /\ collab' = [collab EXCEPT !.pc = IF r.pc = "raised" THEN "raised" ELSE @]
    /\ UNCHANGED <<available, par>>
    /\ UNCHANGED storeVars

NextCollaborate ==
    \/ \E ip \in InitialPrompts, pl \in Pipelines : collaborate(ip, pl)
    \/ \E o \in Completions, c \in ResponseContents : collaborate_complete(o, c)

SpecCollaborate == InitRequest /\ [][NextCollaborate]_vars

(***************************************************************************)
(* KeywordMatcher (processors/keyword_matcher.py), semantic matching        *)
(* disabled.  A text is the set of its words; keywords and synonyms are     *)
(* single words.                                                           *)
(***************************************************************************)
GroupOrder == <<"G1", "G2">>         \* the groups, in the order of the dict
KeywordOrder == <<"AI", "LLM">>      \* the keywords, in the order of a group
Synonyms == {"ML", "llm"}
Words == {"AI", "Llm", "ml"}         \* the words a text can hold

\* str.lower()
Lower(w) ==
    CASE w \in {"AI", "ai"} -> "ai"
      [] w \in {"LLM", "Llm", "llm"} -> "llm"
      [] w \in {"ML", "ml"} -> "ml"

\* keywords: {group_name: {keyword: [synonyms]}}; a keyword may be absent of
\* a group.
KeywordEntries ==
    {[present |-> FALSE, synonyms |-> {}]}
        \cup {[present |-> TRUE, synonyms |-> S] : S \in SUBSET Synonyms}

Taxonomies == [Range(GroupOrder) -> [Range(KeywordOrder) -> KeywordEntries]]

\* The (group, keyword) pairs of a taxonomy.
Pairs(T) ==
    {<<g, k>> \in Range(GroupOrder) \X Range(KeywordOrder) : T[g][k].present}

\* The position of a pair in the loops of _build_lookups.
Position(pair) ==
    LET gi == CHOOSE i \in DOMAIN GroupOrder : GroupOrder[i] = pair[1]
        ki == CHOOSE i \in DOMAIN KeywordOrder : KeywordOrder[i] = pair[2]
    IN gi * (Len(KeywordOrder) + 1) + ki

\* The pair a dict holds for a key after every pair of S was assigned to it
\* in turn: the last one.
LastOf(S) == CHOOSE x \in S : \A y \in S : Position(y) <= Position(x)

\* _build_lookups: exact_lookup[keyword.lower()] = (group_name, keyword)
exact_lookup(T) ==
    LET keys == {Lower(pair[2]) : pair \in Pairs(T)} IN
    [key \in keys |-> LastOf({pair \in Pairs(T) : Lower(pair[2]) = key})]

\* _build_lookups: synonym_lookup[synonym.lower()] = (group_name, keyword)
synonym_lookup(T) ==
    LET has(pair, key) == \E sy \in T[pair[1]][pair[2]].synonyms : Lower(sy) = key
        keys == {Lower(sy) : sy \in UNION {T[pair[1]][pair[2]].synonyms : pair \in Pairs(T)}}
    IN [key \in keys |-> LastOf({pair \in Pairs(T) : has(pair, key)})]

\* text.lower() and re.search(r"\b<key>\b", text_lower)
Occurs(key, text) == \E w \in text : Lower(w) = key

MatchResult(pair, match_type, score) ==
    [keyword |-> pair[2], keyword_group |-> pair[1], match_type |-> match_type,
     score |-> score]

\* _match_exact: one result, score 1.0, for each key of exact_lookup in the text
MatchExact(T, text) ==
    {MatchResult(exact_lookup(T)[key], "exact", 10) :
        key \in {x \in DOMAIN exact_lookup(T) : Occurs(x, text)}}

\* _match_synonyms: one result, score 0.9, for each key of synonym_lookup
MatchSynonyms(T, text) ==
    {MatchResult(synonym_lookup(T)[key], "synonym", 9) :
        key \in {x \in DOMAIN synonym_lookup(T) : Occurs(x, text)}}

\* match: the exact results, then the synonym results, of which the first of
\* the highest score is kept for each group:keyword.
Match(T, text) ==
    LET results == MatchExact(T, text) \cup MatchSynonyms(T, text) IN
    {r \in results :
        \A o \in results :
            (o.keyword_group = r.keyword_group /\ o.keyword = r.keyword)
                => o.score <= r.score}

\* The synonyms, in the order of a keyword's list.
SynonymOrder == <<"ML", "llm">>

RECURSIVE InOrder(_, _)
\* The elements of S as a list, by ascending pos.
InOrder(S, pos) ==
    IF S = {} THEN <<>>
    ELSE LET x == CHOOSE y \in S : \A z \in S : pos[y] <= pos[z]
         IN <<x>> \o InOrder(S \ {x}, pos)

\* exact_lookup.items(): a dict iterates its keys in the order in which each
\* was first assigned.
ExactKeys(T) ==
    InOrder(DOMAIN exact_lookup(T),
            [key \in DOMAIN exact_lookup(T) |->
                Min({Position(pair) : pair \in {x \in Pairs(T) : Lower(x[2]) = key}})])

\* synonym_lookup.items()
SynonymKeys(T) ==
    LET at(pair, i) == Position(pair) * (Len(SynonymOrder) + 1) + i IN
    InOrder(DOMAIN synonym_lookup(T),
            [key \in DOMAIN synonym_lookup(T) |->
                Min({at(pair, i) : <<pair, i>> \in
                        {x \in Pairs(T) \X DOMAIN SynonymOrder :
                            /\ SynonymOrder[x[2]] \in T[x[1][1]][x[1][2]].synonyms
                            /\ Lower(SynonymOrder[x[2]]) = key}})])

\* results.extend(exact_results); results.extend(synonym_results)
Extended(T, text) ==
    LET exact == SelectSeq(ExactKeys(T), LAMBDA key : Occurs(key, text))
        synonym == SelectSeq(SynonymKeys(T), LAMBDA key : Occurs(key, text))
    IN [i \in DOMAIN exact |-> MatchResult(exact_lookup(T)[exact[i]], "exact", 10)]
       \o [i \in DOMAIN synonym |->
                MatchResult(synonym_lookup(T)[synonym[i]], "synonym", 9)]

RECURSIVE Seen(_, _)
\* The deduplication: seen[group:keyword] keeps its place and takes a later
\* result only if its score is higher; list(seen.values()).
Seen(results, seen) ==
    IF results = <<>> THEN seen
    ELSE LET r == Head(results)
             same == {i \in DOMAIN seen :
                        /\ seen[i].keyword_group = r.keyword_group
                        /\ seen[i].keyword = r.keyword}
         IN Seen(Tail(results),
                 IF same = {} THEN Append(seen, r)
                 ELSE [i \in DOMAIN seen |->
                          IF i \in same /\ r.score > seen[i].score
                          THEN r ELSE seen[i]])

RECURSIVE SortByScoreAscending(_)
\* (a variant that sorts without reverse=True)
SortByScoreAscending(results) ==
    IF results = <<>> THEN <<>>
    ELSE LET first == CHOOSE i \in DOMAIN results : \A j \in DOMAIN results :
                        \/ results[j].score > results[i].score
                        \/ results[j].score = results[i].score /\ i <= j
         IN <<results[first]>>
            \o SortByScoreAscending(
                  [k \in 1..(Len(results) - 1) |->
                      IF k < first THEN results[k] ELSE results[k + 1]])

RECURSIVE SortByScore(_)
\* final_results.sort(key=lambda x: x.score, reverse=True): a stable sort, the
\* first of the highest score comes first.
SortByScore(results) ==
    IF results = <<>> THEN <<>>
    ELSE LET first == CHOOSE i \in DOMAIN results : \A j \in DOMAIN results :
                        \/ results[j].score < results[i].score
                        \/ results[j].score = results[i].score /\ i <= j
         IN <<results[first]>>
            \o SortByScore(
                  [k \in 1..(Len(results) - 1) |->
                      IF k < first THEN results[k] ELSE results[k + 1]])

\* match: the list it returns.
MatchList(T, text) == SortByScore(Seen(Extended(T, text), <<>>))

\* _build_lookups: both dicts are emptied and filled from self.keywords;
\* the keys are kept in the order of their first insertion.
BuildLookups(T) ==
    [exact_keys |-> ExactKeys(T), exact_lookup |-> exact_lookup(T),
     synonym_keys |-> SynonymKeys(T), synonym_lookup |-> synonym_lookup(T)]

\* _match_exact and _match_synonyms over the dicts as they are, and
\* results.extend of both.
ExtendedFrom(tables, text) ==
    LET exact == SelectSeq(tables.exact_keys, LAMBDA key : Occurs(key, text))
        synonym == SelectSeq(tables.synonym_keys, LAMBDA key : Occurs(key, text))
    IN [i \in DOMAIN exact |->
            MatchResult(tables.exact_lookup[exact[i]], "exact", 10)]
       \o [i \in DOMAIN synonym |->
            MatchResult(tables.synonym_lookup[synonym[i]], "synonym", 9)]

\* await matcher.match(text, use_semantic=False); results is the set of the
\* elements of final_results.
match(text) ==
    /\ matcher.pc = "idle"
    /\ matcher' = [matcher EXCEPT !.pc = "done", !.text = text,
                                  !.results = Match(matcher.keywords, text),
                                  !.final_results = MatchList(matcher.keywords, text)]
    /\ UNCHANGED <<coreVars, orchVars>>

\* KeywordMatcher(keywords=T, enable_semantic=False)
InitMatch ==
    /\ source = [s \in Sources |-> NewSource]
    /\ contents = {}
    /\ jobs = <<>>
    /\ tasks = [t \in Tasks |-> IdleTask]
    /\ dispatched = 0
    /\ ptasks = [j \in Jobs |-> IdleJob]
    /\ now = 1
    /\ available = {}
    /\ req = IdleRequest
    /\ par = IdleParallel
    /\ collab = IdleCollab
    /\ \E T \in Taxonomies :
            matcher = [IdleMatcher EXCEPT !.keywords = T, !.tables = BuildLookups(T)]
    /\ crawler = IdleCrawler
    /\ execution = IdleExecution
    /\ db = EmptyDb

NextMatch == \E text \in SUBSET Words : match(text)

SpecMatch == InitMatch /\ [][NextMatch]_vars

(***************************************************************************)
(* The semantic pass of match.  Scores are in tenths; the reply of the     *)
(* model is a JSON array of {"keyword": "group:keyword", "score": ...}     *)
(* objects, or something json.loads or the loop raises on.                 *)
(***************************************************************************)
MaxReply == 2                        \* the objects of a reply, at most

MinScores == {5, 7}                  \* min_score: the default, and a higher one
Overrides == {"None", "True", "False"}      \* use_semantic

\* The objects of a reply: "keyword" with or without a colon (pair = <<>>),
\* "score" present or absent.
SemanticEntries ==
    [pair : {<<"G1", "AI">>, <<"G1", "LLM">>, <<>>}, score : {3, 6, NoScore}]

\* A reply: raises tells whether ai.request, json.loads or the loop raises.
SemanticReplies ==
    {[raises |-> TRUE, objects |-> <<>>]}
        \cup {[raises |-> FALSE, objects |-> o] :
                o \in UNION {[1..n -> SemanticEntries] : n \in 0..MaxReply}}

\* _match_semantic after ai.request: a result for every object whose keyword
\* holds a colon, with score 0.5 when absent; [] on any exception.
MatchSemantic(reply) ==
    IF reply.raises THEN <<>>
    ELSE LET kept == SelectSeq(reply.objects, LAMBDA e : e.pair # <<>>) IN
         [i \in DOMAIN kept |->
             MatchResult(kept[i].pair, "semantic",
                         IF kept[i].score = NoScore THEN 5 ELSE kept[i].score)]

\* (a variant that ignores the use_semantic argument)
ShouldUseSemanticFlagOnly(m, use_semantic) == m.enable_semantic

\* should_use_semantic = use_semantic if use_semantic is not None
\*                       else self.enable_semantic
ShouldUseSemantic(m, use_semantic) ==
    IF use_semantic # "None" THEN use_semantic = "True" ELSE m.enable_semantic

\* The deduplication and the sort that end match.
Returned(m, results) ==
    LET final == SortByScore(Seen(results, <<>>)) IN
    [m EXCEPT !.pc = "done", !.results = Range(final), !.final_results = final]

\* await matcher.match(text, min_score, use_semantic): the exact and the
\* synonym pass, which read the two dicts with no suspension point in
\* between (read, and at_read the taxonomy of that moment, record what they
\* saw); if the semantic pass is asked for and nothing was found,
\* _match_semantic sends its prompt to the orchestrator and match waits,
\* otherwise match returns.
match_with(text, min_score, use_semantic) ==
    LET found == ExtendedFrom(matcher.tables, text)
        m == [matcher EXCEPT !.text = text, !.use_semantic = use_semantic,
                             !.min_score = min_score,
                             !.read = matcher.tables,
                             !.at_read = matcher.keywords]
    IN
    /\ matcher.pc = "idle"
    /\ matcher' = IF ShouldUseSemantic(matcher, use_semantic) /\ Len(found) = 0
                  THEN [m EXCEPT !.pc = "semantic", !.semantic_calls = @ + 1]
                  ELSE Returned(m, found)
    /\ UNCHANGED <<coreVars, orchVars>>

\* The orchestrator answers: results.extend of the semantic results with
\* score >= min_score, and match returns.
semantic_reply(reply) ==
    LET semantic == MatchSemantic(reply) IN
    /\ matcher.pc = "semantic"
    /\ matcher' = Returned([matcher EXCEPT !.semantic = semantic],
                           SelectSeq(semantic, LAMBDA r : r.score >= matcher.min_score))
    /\ UNCHANGED <<coreVars, orchVars>>

\* The taxonomies of one group.
SmallTaxonomies ==
    {T \in Taxonomies : \A k \in Range(KeywordOrder) : ~T["G2"][k].present}

\* KeywordMatcher(keywords=T, enable_semantic=e)
InitSemantic ==
    /\ source = [s \in Sources |-> NewSource]
    /\ contents = {}
    /\ jobs = <<>>
    /\ tasks = [t \in Tasks |-> IdleTask]
    /\ dispatched = 0
    /\ ptasks = [j \in Jobs |-> IdleJob]
    /\ now = 1
    /\ available = {}
    /\ req = IdleRequest
    /\ par = IdleParallel
    /\ collab = IdleCollab
    /\ \E T \in SmallTaxonomies, e \in BOOLEAN :
            matcher = [IdleMatcher EXCEPT !.keywords = T, !.enable_semantic = e,
                                          !.tables = BuildLookups(T)]
    /\ crawler = IdleCrawler
    /\ execution = IdleExecution
    /\ db = EmptyDb

NextSemantic ==
    \/ \E text \in SUBSET Words, min_score \in MinScores, use_semantic \in Overrides :
            match_with(text, min_score, use_semantic)
    \/ \E reply \in SemanticReplies : semantic_reply(reply)

SpecSemantic == InitSemantic /\ [][NextSemantic]_vars

(***************************************************************************)
(* add_keyword_group while matches are in progress.  The matcher is used   *)
(* by coroutines of one event loop: add_keyword_group is a plain function  *)
(* and runs to its end, a match can only be overtaken where it awaits.     *)
(***************************************************************************)
MaxAdds == 2                         \* the calls of add_keyword_group, at most

\* The groups given to add_keyword_group.
GroupDicts ==
    {kws \in [Range(KeywordOrder) -> KeywordEntries] :
        /\ kws["AI"].synonyms \in {{}, {"ML"}}
        /\ kws["LLM"].synonyms = {}}

\* KeywordMatcher(keywords=None): self.keywords = {}
NoKeywords ==
    [g \in Range(GroupOrder) |->
        [k \in Range(KeywordOrder) |-> [present |-> FALSE, synonyms |-> {}]]]

\* (a variant whose rebuild leaves the synonym dict as it was)
RebuiltExactOnly(m, T) ==
    [m EXCEPT !.keywords = T,
              !.tables.exact_keys = ExactKeys(T),
              !.tables.exact_lookup = exact_lookup(T)]

\* self.keywords[group_name] = keywords; self._build_lookups()
Rebuilt(m, T) == [m EXCEPT !.keywords = T, !.tables = BuildLookups(T)]

\* add_keyword_group(group_name, keywords): the group is added or replaced.
add_keyword_group(group_name, keywords) ==
    /\ matcher.adds < MaxAdds
    /\ matcher' = [Rebuilt(matcher, [matcher.keywords EXCEPT ![group_name] = keywords])
                      EXCEPT !.adds = @ + 1]
    /\ UNCHANGED <<coreVars, orchVars>>

\* KeywordMatcher(enable_semantic=True)
InitLookup ==
    /\ source = [s \in Sources |-> NewSource]
    /\ contents = {}
    /\ jobs = <<>>
    /\ tasks = [t \in Tasks |-> IdleTask]
    /\ dispatched = 0
    /\ ptasks = [j \in Jobs |-> IdleJob]
    /\ now = 1
    /\ available = {}
    /\ req = IdleRequest
    /\ par = IdleParallel
    /\ collab = IdleCollab
    /\ matcher = [IdleMatcher EXCEPT !.keywords = NoKeywords,
                                     !.tables = BuildLookups(NoKeywords),
                                     !.enable_semantic = TRUE]
    /\ crawler = IdleCrawler
    /\ execution = IdleExecution
    /\ db = EmptyDb

\* The replies of the model without a result.
EmptyReplies == {r \in SemanticReplies : r.objects = <<>>}

NextLookup ==
    \/ \E group_name \in Range(GroupOrder), keywords \in GroupDicts :
            add_keyword_group(group_name, keywords)
    \/ \E text \in SUBSET Words : match_with(text, 5, "None")
    \/ \E reply \in EmptyReplies : semantic_reply(reply)

SpecLookup == InitLookup /\ [][NextLookup]_vars

(***************************************************************************)
(* Initial state: the sources exist as created, nothing crawled yet.       *)
(***************************************************************************)
InitCrawl ==
    /\ source = [s \in Sources |-> NewSource]
    /\ contents = {}
    /\ jobs = <<>>
    /\ tasks = [t \in Tasks |-> IdleTask]
    /\ dispatched = 0
    /\ ptasks = [j \in Jobs |-> IdleJob]
    /\ now = 1
    /\ AIIdle

(***************************************************************************)
(* Dispatch: crawl_source.delay(source_id) for each source of S.           *)
(***************************************************************************)
Dispatch(S, origin) ==
    LET order == SetToSeq(S) IN
    /\ dispatched + Len(order) <= MaxTasks
    /\ tasks' = [t \in Tasks |->
                    IF t > dispatched /\ t <= dispatched + Len(order)
                    THEN QueuedTask(order[t - dispatched], origin, 0, "none")
                    ELSE tasks[t]]
    /\ dispatched' = dispatched + Len(order)

\* _crawl_all_sources_async: every source with status ACTIVE is dispatched.
crawl_all_sources ==
    /\ Dispatch({s \in Sources : source[s].status = "active"}, "poll")
    /\ UNCHANGED <<source, contents, jobs>>
    /\ UNCHANGED pipeVars

\* trigger_crawl: the source exists; the task is dispatched unconditionally.
trigger_crawl(s) ==
    /\ Dispatch({s}, "api")
    /\ UNCHANGED <<source, contents, jobs>>
    /\ UNCHANGED pipeVars

\* run_schedule_now: one task per source bound to the schedule (init_db binds
\* every feed source to the default schedule).
ScheduleSources == Sources

run_schedule_now ==
    /\ Dispatch(ScheduleSources, "api")
    /\ UNCHANGED <<source, contents, jobs>>
    /\ UNCHANGED pipeVars

\* update_source: PATCH with a status (the other fields of SourceUpdate are
\* name, url, config and crawl_interval_minutes; error_count is not one).
\* The update modelled is the manual reset of a source to active.
PatchStatuses == {"active"}

update_source(s, st) ==
    /\ source' = [source EXCEPT ![s].status = st]
    /\ UNCHANGED <<contents, jobs, tasks, dispatched>>
    /\ UNCHANGED pipeVars

(***************************************************************************)
(* One execution of crawl_source (_crawl_source_async).                    *)
(***************************************************************************)
\* A worker takes the message: db.get(Source), JobExecution(status=RUNNING),
\* db.add(job), db.flush().
StartCrawl(t) ==
    /\ tasks[t].pc = "queued"
    /\ Cardinality({u \in Tasks : Running(u)}) < worker_concurrency
    /\ tasks' = [tasks EXCEPT ![t].pc = "crawl",
                              ![t].loaded = [status |-> source[tasks[t].source].status,
                                             error_count |-> source[tasks[t].source].error_count],
                              ![t].exc = "none"]
    /\ UNCHANGED <<source, contents, jobs, dispatched>>
    /\ UNCHANGED pipeVars

\* results = await crawler.crawl(); items_collected = len(results)
CrawlOk(t, res) ==
    /\ tasks[t].pc = "crawl"
    /\ tasks' = [tasks EXCEPT ![t].pc = "save", ![t].results = res, ![t].i = 1]
    /\ UNCHANGED <<source, contents, jobs, dispatched>>
    /\ UNCHANGED pipeVars

\* A JobExecution row as committed.  results, added and fresh record, for the
\* properties, what the execution fetched, how many Content rows its commit
\* added and whether none of the fetched hashes was stored before the commit.
JobRow(t, status, collected, saved, err, added, fresh) ==
    [source |-> tasks[t].source,
     status |-> status, items_collected |-> collected, items_saved |-> saved,
     error_message |-> err, results |-> tasks[t].results,
     added |-> added, fresh |-> fresh]

\* An attribute set on a loaded row is written by the flush only if the value
\* differs from the loaded one.
WriteAttr(stored, loaded, new) == IF new = loaded THEN stored ELSE new

\* (a variant of task.retry that never gives up)
RetryUnbounded(t, exc) ==
    QueuedTask(tasks[t].source, tasks[t].origin, tasks[t].retries + 1, exc)

\* task.retry(exc=e): a new message with retries + 1, or the exception itself
\* once max_retries is reached.
Retry(t, exc) ==
    IF tasks[t].retries < max_retries
    THEN QueuedTask(tasks[t].source, tasks[t].origin, tasks[t].retries + 1, exc)
    ELSE DoneTask(t, exc)

\* The crawls that have failed so far.
Failures == Cardinality({k \in DOMAIN jobs : jobs[k].status = "failed"})

\* crawler.crawl() raises: the except branch counts the error on the loaded
\* source, fails the job and asks for a retry; the block is left.
CrawlFail(t) ==
    LET s == tasks[t].source
        ld == tasks[t].loaded
        ec == ld.error_count + 1
    IN
    /\ tasks[t].pc = "crawl"
    /\ Failures < MaxFailures
    /\ IF CommitOnError
       THEN /\ source' = [source EXCEPT
                            ![s].error_count = ec,
                            ![s].last_error = "HTTP 500",
                            ![s].status = IF ec >= ErrorThreshold
                                          THEN WriteAttr(@, ld.status, "error")
                                          ELSE @]
            /\ jobs' = Append(jobs, JobRow(t, "failed", 0, 0, "HTTP 500", 0, FALSE))
       ELSE UNCHANGED <<source, jobs>>
    /\ tasks' = [tasks EXCEPT ![t] = Retry(t, "crawl")]
    /\ UNCHANGED <<contents, dispatched>>
    /\ UNCHANGED pipeVars

\* The duplicate check of item i: select where content_hash == result.content_hash
\* sees the committed rows and the rows this transaction has flushed.  A hit
\* skips the item, a miss adds a Content and counts it.
Existing(t, h) == h \in StoredHashes \cup FlushedHashes(t)

\* (a variant that counts the skipped items too)
SelectItemCountsSkipped(t) ==
    LET k == tasks[t].i IN
    /\ tasks[t].pc = "save"
    /\ k <= Len(tasks[t].results)
    /\ (tasks[t].pending = {} \/ ~Autoflush)
    /\ tasks' = IF Existing(t, tasks[t].results[k])
                THEN [tasks EXCEPT ![t].i = k + 1,
                                   ![t].items_saved = @ + 1]
                ELSE [tasks EXCEPT ![t].i = k + 1,
                                   ![t].pending = @ \cup {k},
                                   ![t].items_saved = @ + 1]
    /\ UNCHANGED <<source, contents, jobs, dispatched>>
    /\ UNCHANGED pipeVars

SelectItem(t) ==
    LET k == tasks[t].i IN
    /\ tasks[t].pc = "save"
    /\ k <= Len(tasks[t].results)
    /\ (tasks[t].pending = {} \/ ~Autoflush)
    /\ tasks' = IF Existing(t, tasks[t].results[k])
                THEN [tasks EXCEPT ![t].i = k + 1]
                ELSE [tasks EXCEPT ![t].i = k + 1,
                                   ![t].pending = @ \cup {k},
                                   ![t].items_saved = @ + 1]
    /\ UNCHANGED <<source, contents, jobs, dispatched>>
    /\ UNCHANGED pipeVars

\* The transaction is rolled back by a failed INSERT: nothing of the execution
\* is stored.  Inside the try block (the autoflush of a query) the except
\* branch runs on the dead session and may or may not get to task.retry;
\* at the commit that ends the block the exception leaves the task.
AbortedTask(t, exc, retry) ==
    IF retry THEN Retry(t, exc) ELSE DoneTask(t, exc)

\* The session INSERTs the next pending Content row.
FlushItem(t) ==
    LET k == Min(tasks[t].pending)
        inTry == tasks[t].i <= Len(tasks[t].results)
    IN
    /\ AtFlush(t)
    /\ InsertOutcome(t, tasks[t].results[k]) # "wait"
    /\ IF InsertOutcome(t, tasks[t].results[k]) = "ok"
       THEN tasks' = [tasks EXCEPT ![t].pending = @ \ {k},
                                   ![t].flushed = @ \cup {k}]
       ELSE \E retry \in {inTry, FALSE} :
                tasks' = [tasks EXCEPT ![t] = AbortedTask(t, "IntegrityError", retry)]
    /\ UNCHANGED <<source, contents, jobs, dispatched>>
    /\ UNCHANGED pipeVars

\* Two or more transactions wait for each other's uncommitted rows: the
\* database aborts one of them.
DeadlockAbort(t) ==
    /\ t \in WaitsFor(t, MaxTasks)
    /\ \E retry \in {tasks[t].i <= Len(tasks[t].results), FALSE} :
            tasks' = [tasks EXCEPT ![t] = AbortedTask(t, "DeadlockDetected", retry)]
    /\ UNCHANGED <<source, contents, jobs, dispatched>>
    /\ UNCHANGED pipeVars

\* (a variant that records the saved count as the collected count)
CommitCrawlCollectedIsSaved(t) ==
    LET s == tasks[t].source
        ld == tasks[t].loaded
        rows == {NewContent(<<t, k>>, s, tasks[t].results[k]) :
                    k \in tasks[t].flushed}
    IN
    /\ tasks[t].pc = "save"
    /\ tasks[t].i > Len(tasks[t].results)
    /\ tasks[t].pending = {}
    /\ contents' = contents \cup rows
    /\ source' = [source EXCEPT
                    ![s].error_count = WriteAttr(@, ld.error_count, 0),
                    ![s].status = WriteAttr(@, ld.status, "active")]
    /\ jobs' = Append(jobs,
                 JobRow(t, "completed", tasks[t].items_saved, tasks[t].items_saved,
                        NULL, Cardinality(rows),
                        Range(tasks[t].results) \cap StoredHashes = {}))
    /\ tasks' = [tasks EXCEPT ![t] = DoneTask(t, "none")]
    /\ UNCHANGED dispatched
    /\ UNCHANGED pipeVars

\* All items handled and flushed: the source is marked crawled (error_count = 0,
\* status ACTIVE), the job COMPLETED with its counters, and the block commits.
CommitCrawl(t) ==
    LET s == tasks[t].source
        ld == tasks[t].loaded
        rows == {NewContent(<<t, k>>, s, tasks[t].results[k]) :
                    k \in tasks[t].flushed}
    IN
    /\ tasks[t].pc = "save"
    /\ tasks[t].i > Len(tasks[t].results)
    /\ tasks[t].pending = {}
    /\ contents' = contents \cup rows
    /\ source' = [source EXCEPT
                    ![s].error_count = WriteAttr(@, ld.error_count, 0),
                    ![s].status = WriteAttr(@, ld.status, "active")]
    /\ jobs' = Append(jobs,
                 JobRow(t, "completed", Len(tasks[t].results), tasks[t].items_saved,
                        NULL, Cardinality(rows),
                        Range(tasks[t].results) \cap StoredHashes = {}))
    /\ tasks' = [tasks EXCEPT ![t] = DoneTask(t, "none")]
    /\ UNCHANGED dispatched
    /\ UNCHANGED pipeVars

NextCrawl ==
    \/ crawl_all_sources
    \/ \E s \in Sources : trigger_crawl(s)
    \/ run_schedule_now
    \/ \E s \in Sources, st \in PatchStatuses : update_source(s, st)
    \/ \E t \in Tasks : StartCrawl(t)
    \/ \E t \in Tasks, res \in CrawlResults : CrawlOk(t, res)
    \/ \E t \in Tasks : CrawlFail(t)
    \/ \E t \in Tasks : SelectItem(t)
    \/ \E t \in Tasks : FlushItem(t)
    \/ \E t \in Tasks : DeadlockAbort(t)
    \/ \E t \in Tasks : CommitCrawl(t)

SpecCrawl == InitCrawl /\ [][NextCrawl]_vars

\* The coordinator while every upstream fetch succeeds and no source is
\* updated by hand: the triggers and the saving of the results.
NextSave ==
    \/ crawl_all_sources
    \/ \E s \in Sources : trigger_crawl(s)
    \/ run_schedule_now
    \/ \E t \in Tasks : StartCrawl(t)
    \/ \E t \in Tasks, res \in CrawlResults : CrawlOk(t, res)
    \/ \E t \in Tasks : SelectItem(t)
    \/ \E t \in Tasks : FlushItem(t)
    \/ \E t \in Tasks : DeadlockAbort(t)
    \/ \E t \in Tasks : CommitCrawl(t)

SpecSave == InitCrawl /\ [][NextSave]_vars

\* The coordinator while the upstream fetches fail: the triggers and the
\* executions that end in the except branch.
NextRetry ==
    \/ crawl_all_sources
    \/ \E s \in Sources : trigger_crawl(s)
    \/ \E t \in Tasks : StartCrawl(t)
    \/ \E t \in Tasks : CrawlFail(t)

SpecRetry == InitCrawl /\ [][NextRetry]_vars

(***************************************************************************)
(* Properties of the crawl coordinator.                                    *)
(***************************************************************************)
InFlight(s) == {t \in Tasks : Running(t) /\ tasks[t].source = s}

\* C1: for every source at most one crawl_source execution is in flight at
\* any time (a trigger that arrives while the source is crawled starts none).
C1_OneCrawlPerSource == \A s \in Sources : Cardinality(InFlight(s)) <= 1

\* C2: no two stored Content rows share a content_hash, also when concurrent
\* executions yield the same hash.
C2_UniqueContentHash ==
    \A c1 \in contents, c2 \in contents :
        c1.content_hash = c2.content_hash => c1 = c2

\* Two executions fetched the same hash at the same time; one stored it and
\* the INSERT of the other was refused.
C2_Witness ==
    /\ StoredHashes # {}
    /\ \E t \in Tasks : tasks[t].exc = "IntegrityError"

\* C3: a result whose hash is already stored is never an error of the crawl,
\* also when the row was inserted by a concurrent crawl between the check and
\* the insert: no execution ends with the INSERT refused.
C3_DuplicateNeverAnError ==
    \A t \in Tasks : tasks[t].exc \notin {"IntegrityError", "DeadlockDetected"}

\* The completed crawl jobs of a source before position m whose fetch returned
\* the same items as the job at m, with no row added to the store in between.
SameCrawlBefore(m) ==
    {k \in 1..(m - 1) :
        /\ jobs[k].status = "completed"
        /\ jobs[k].source = jobs[m].source
        /\ jobs[k].results = jobs[m].results
        /\ \A n \in (k + 1)..(m - 1) : jobs[n].added = 0}

\* C4: a crawl of a source that fetches the same items as the preceding
\* crawl of that source, the store untouched in between, saves zero rows and
\* adds none.
C4_SecondCrawlSavesNothing ==
    \A m \in DOMAIN jobs :
        (jobs[m].status = "completed" /\ SameCrawlBefore(m) # {})
            => (jobs[m].items_saved = 0 /\ jobs[m].added = 0)

\* A source was crawled twice with the same non-empty fetch.
C4_Witness ==
    \E m \in DOMAIN jobs :
        /\ jobs[m].status = "completed"
        /\ jobs[m].results # <<>>
        /\ \E k \in SameCrawlBefore(m) : jobs[k].items_saved > 0

\* C5: a crawl that returns n results with k distinct hashes, none of them
\* stored, records items_collected = n and items_saved = k and adds k rows.
C5_CollectedAndSaved ==
    \A m \in DOMAIN jobs :
        (jobs[m].status = "completed" /\ jobs[m].fresh)
            => /\ jobs[m].items_collected = Len(jobs[m].results)
               /\ jobs[m].items_saved = Cardinality(Range(jobs[m].results))
               /\ jobs[m].added = Cardinality(Range(jobs[m].results))

\* A crawl of two identical entries stored one row.
C5_Witness ==
    \E m \in DOMAIN jobs :
        /\ jobs[m].status = "completed"
        /\ jobs[m].fresh
        /\ jobs[m].items_collected = 2
        /\ jobs[m].items_saved = 1

\* C6: every source with error_count >= 3 has status error.
C6_ErrorCountImpliesError ==
    \A s \in Sources :
        source[s].error_count >= ErrorThreshold => source[s].status = "error"

\* C7: a dispatched crawl that fails adds exactly 1 to the stored error_count
\* (and records last_error, and sets status error from 3 on): with a single
\* crawl ever dispatched for a fresh source, the count after its failure is 1.
C7_FailureCountsOnce ==
    \A t \in Tasks :
        (dispatched = 1 /\ tasks[t].exc = "crawl")
            => /\ source[tasks[t].source].error_count = NewSource.error_count + 1
               /\ source[tasks[t].source].last_error # NULL

\* C8: while a source has status error the scheduler starts no execution for
\* it, neither one dispatched by the periodic poll nor a retry of a failed
\* crawl.
C8_NoCrawlWhileError ==
    \A t \in Tasks :
        (Running(t) /\ (tasks[t].origin = "poll" \/ tasks[t].retries > 0))
            => tasks[t].loaded.status # "error"

(***************************************************************************)
(* The enrich and notify stages.                                           *)
(*                                                                         *)
(* Scores are in tenths: 7 stands for 0.7.                                 *)
(***************************************************************************)
ProcessLimit == 100          \* .limit(100) in _process_pending_content_async
NotifyLimit == 50            \* .limit(50) in _send_pending_notifications_async
NotifyThreshold == 7         \* Content.importance_score >= 0.7

\* The scores a model response can report.
RawScores == {0 - 3, 7, 17}

\* A score field of the parsed response: a number, a value float() rejects
\* (null, "high"), or no such key.
ScoreFields ==
    {[kind |-> "absent", value |-> 0], [kind |-> "invalid", value |-> 0]}
        \cup {[kind |-> "number", value |-> x] : x \in RawScores}

\* What self.ai.request(prompt, task_type=ANALYZE) does in _analyze_content:
\* it raises RuntimeError, or returns a response whose content is a JSON
\* object ("json"), text around a JSON object ("embedded"), text around
\* braces that are no JSON ("broken"), text without braces ("text"), or JSON
\* that is no object ("nondict").
AIResponses ==
    {[NoResponse EXCEPT !.error = e] :
        e \in {"No AI providers available", "All AI providers failed"}}
    \cup {[NoResponse EXCEPT !.form = f] : f \in {"broken", "text", "nondict"}}
    \cup {[NoResponse EXCEPT !.form = "json", !.score = sc] : sc \in ScoreFields}
    \cup {[NoResponse EXCEPT !.form = "embedded",
                             !.score = [kind |-> "number", value |-> 17]]}

\* (a variant that stores the reported score as it is)
ClampNone(x) == x

Clamp(x) == IF x < 0 THEN 0 ELSE IF x > 10 THEN 10 ELSE x

\* AIContentProcessor._validate_result: the given fields, the defaults for the
\* absent ones, min(1.0, max(0.0, float(score))) for the two scores.
ValidateResult(raw) ==
    [summary |-> raw.summary, categories |-> raw.categories,
     entities |-> raw.entities, sentiment |-> raw.sentiment,
     relevance_score |-> IF raw.relevance_score.kind = "absent" THEN 5
                         ELSE Clamp(raw.relevance_score.value),
     importance_score |-> IF raw.importance_score.kind = "absent" THEN 5
                          ELSE Clamp(raw.importance_score.value),
     key_topics |-> raw.key_topics]

\* (a variant whose default scores are zero)
DefaultResultZero ==
    [summary |-> NULL, categories |-> {}, entities |-> {}, sentiment |-> "neutral",
     relevance_score |-> 0, importance_score |-> 0, key_topics |-> {}]

\* AIContentProcessor._get_default_result
DefaultResult ==
    [summary |-> NULL, categories |-> {}, entities |-> {}, sentiment |-> "neutral",
     relevance_score |-> 5, importance_score |-> 5, key_topics |-> {}]

\* The JSON object a response of form "json" or "embedded" carries.
Parsed(resp) ==
    [summary |-> "summary", categories |-> {"Technical"}, entities |-> {"companies"},
     sentiment |-> "positive", relevance_score |-> resp.score,
     importance_score |-> resp.score, key_topics |-> {"LLM"}]

\* AIContentProcessor._analyze_content: the exception of the request, of
\* json.loads (no JSON in the content), of result.get (no object) or of
\* float() leaves the method; otherwise the validated result is returned.
AnalyzeRaises(resp) ==
    \/ resp.error # "none"
    \/ resp.form \in {"broken", "text", "nondict"}
    \/ resp.score.kind = "invalid"

\* AIContentProcessor.process: the analysis, or the default result when the
\* analysis raised.
Process(resp) ==
    IF AnalyzeRaises(resp) THEN DefaultResult ELSE ValidateResult(Parsed(resp))

\* What AIContentProcessor.process can return.
ProcessResults == {Process(resp) : resp \in AIResponses}

\* What NotificationManager.notify did: a delivery on an applicable channel,
\* a failed delivery (caught and logged), or no applicable channel at all.
NotifyOutcomes == {"sent", "failed", "none"}

Row(id) == CHOOSE c \in contents : c.id = id

\* The first n elements of a set, in a fixed order (a query with LIMIT n).
Limit(S, n) ==
    LET order == SetToSeq(S) IN
    {order[k] : k \in 1..(IF Len(order) < n THEN Len(order) ELSE n)}

DispatchedJobs == Cardinality({j \in Jobs : ptasks[j].pc # "idle"})

\* <task>.delay(str(content.id)) for each content of ids.
DispatchJobs(kind, ids) ==
    LET order == SetToSeq(ids)
        first == DispatchedJobs
    IN
    /\ first + Len(order) <= MaxJobs
    /\ ptasks' = [j \in Jobs |->
                    IF j > first /\ j <= first + Len(order)
                    THEN QueuedJob(kind, order[j - first])
                    ELSE ptasks[j]]

\* A task returns: its record is the finished one, and of the tasks that
\* finished before only the fact that they did is kept.
Finish(j, done) ==
    [k \in Jobs |->
        IF k = j THEN [done EXCEPT !.pc = "done", !.loaded = IdleJob.loaded]
        ELSE IF ptasks[k].pc = "done"
             THEN [IdleJob EXCEPT !.kind = ptasks[k].kind,
                                  !.content = ptasks[k].content, !.pc = "done"]
             ELSE ptasks[k]]

\* _process_pending_content_async: up to 100 contents with status NEW.
process_pending_content ==
    /\ DispatchJobs("process",
            Limit({c.id : c \in {d \in contents : d.status = "new"}}, ProcessLimit))
    /\ UNCHANGED <<contents, now>>
    /\ UNCHANGED crawlOnlyVars

\* reprocess_content: the content exists; process_content is dispatched.
reprocess_content(id) ==
    /\ DispatchJobs("process", {id})
    /\ UNCHANGED <<contents, now>>
    /\ UNCHANGED crawlOnlyVars

\* (a variant that selects the processed contents whatever their score)
send_pending_notifications_any_score ==
    /\ DispatchJobs("notify",
            Limit({c.id : c \in {d \in contents : d.status = "processed"}},
                  NotifyLimit))
    /\ UNCHANGED <<contents, now>>
    /\ UNCHANGED crawlOnlyVars

\* _send_pending_notifications_async: up to 50 contents with status PROCESSED
\* and importance_score >= 0.7 (a NULL score does not compare).
send_pending_notifications ==
    /\ DispatchJobs("notify",
            Limit({c.id : c \in {d \in contents :
                        /\ d.status = "processed"
                        /\ d.importance_score # NoScore
                        /\ d.importance_score >= NotifyThreshold}}, NotifyLimit))
    /\ UNCHANGED <<contents, now>>
    /\ UNCHANGED crawlOnlyVars

\* A worker takes a task: content = await db.get(Content, id).
LoadContent(j) ==
    /\ ptasks[j].pc = "queued"
    /\ ptasks' = [ptasks EXCEPT ![j].pc = "running", ![j].loaded = Row(ptasks[j].content)]
    /\ UNCHANGED <<contents, now>>
    /\ UNCHANGED crawlOnlyVars

\* (a variant that records the key topics of the result as keywords)
MatchedKeywordsOfTopics(res) == IF res.key_topics = {} THEN NULL ELSE "LLM"

\* result.get("matched_keywords"): no result of process has the key.
MatchedKeywords(res) == NULL

\* The columns _process_content_async sets on the loaded content.
Processed(row, ld, res) ==
    [row EXCEPT
        !.summary = WriteAttr(@, ld.summary, res.summary),
        !.categories = WriteAttr(@, ld.categories, res.categories),
        !.entities = WriteAttr(@, ld.entities, res.entities),
        !.sentiment = WriteAttr(@, ld.sentiment, res.sentiment),
        !.relevance_score = WriteAttr(@, ld.relevance_score, res.relevance_score),
        !.importance_score = WriteAttr(@, ld.importance_score, res.importance_score),
        !.matched_keywords = WriteAttr(@, ld.matched_keywords, MatchedKeywords(res)),
        !.status = WriteAttr(@, ld.status, "processed")]

\* (a variant that writes the result and leaves the status as it is)
process_content_keeps_status(j, resp) ==
    LET ld == ptasks[j].loaded
        row == Row(ptasks[j].content)
        res == Process(resp)
    IN
    /\ ptasks[j].pc = "running"
    /\ ptasks[j].kind = "process"
    /\ contents' = (contents \ {row}) \cup
                        {[Processed(row, ld, res) EXCEPT !.status = row.status]}
    /\ ptasks' = Finish(j, [ptasks[j] EXCEPT !.response = resp, !.result = res])
    /\ UNCHANGED now
    /\ UNCHANGED crawlOnlyVars

\* (a variant in which a failed analysis fails the task: nothing is written)
process_content_raises(j, resp) ==
    LET ld == ptasks[j].loaded
        row == Row(ptasks[j].content)
        res == Process(resp)
    IN
    /\ ptasks[j].pc = "running"
    /\ ptasks[j].kind = "process"
    /\ contents' = IF AnalyzeRaises(resp) THEN contents
                   ELSE (contents \ {row}) \cup {Processed(row, ld, res)}
    /\ ptasks' = Finish(j, [ptasks[j] EXCEPT !.response = resp, !.result = res])
    /\ UNCHANGED now
    /\ UNCHANGED crawlOnlyVars

\* _process_content_async: processor.process(content) returns its result for
\* what the model answered, the result is written on the loaded content,
\* status PROCESSED, and the block commits.
process_content(j, resp) ==
    LET ld == ptasks[j].loaded
        row == Row(ptasks[j].content)
        res == Process(resp)
    IN
    /\ ptasks[j].pc = "running"
    /\ ptasks[j].kind = "process"
    /\ contents' = (contents \ {row}) \cup {Processed(row, ld, res)}
    /\ ptasks' = Finish(j, [ptasks[j] EXCEPT !.response = resp, !.result = res])
    /\ UNCHANGED now
    /\ UNCHANGED crawlOnlyVars

\* _send_notifications_async after manager.notify returned: status NOTIFIED
\* and notified_at = utcnow() are written, and the block commits.
send_notifications(j, outcome) ==
    LET ld == ptasks[j].loaded
        row == Row(ptasks[j].content)
    IN
    /\ ptasks[j].pc = "running"
    /\ ptasks[j].kind = "notify"
    /\ contents' = (contents \ {row}) \cup
         {[row EXCEPT
            !.status = WriteAttr(@, ld.status, "notified"),
            !.notified_at = now,
            !.sent = IF outcome = "sent" THEN @ + 1 ELSE @]}
    /\ ptasks' = Finish(j, [ptasks[j] EXCEPT !.results = outcome])
    /\ now' = now + 1
    /\ UNCHANGED crawlOnlyVars

\* The contents two crawls have stored.
InitPipeline ==
    /\ source = [s \in Sources |-> NewSource]
    /\ contents = {NewContent(<<1, 1>>, "s1", "h1"), NewContent(<<2, 1>>, "s2", "h2")}
    /\ jobs = <<>>
    /\ tasks = [t \in Tasks |-> IdleTask]
    /\ dispatched = 0
    /\ ptasks = [j \in Jobs |-> IdleJob]
    /\ now = 1
    /\ AIIdle

NextPipeline ==
    \/ process_pending_content
    \/ \E c \in contents : reprocess_content(c.id)
    \/ send_pending_notifications
    \/ \E j \in Jobs : LoadContent(j)
    \/ \E j \in Jobs, resp \in AIResponses : process_content(j, resp)
    \/ \E j \in Jobs, outcome \in NotifyOutcomes : send_notifications(j, outcome)

SpecPipeline == InitPipeline /\ [][NextPipeline]_vars

(***************************************************************************)
(* The enrich stage alone.  The rows of the table may carry keyword        *)
(* matches written by another writer of the table: the coordinator has     *)
(* none.                                                                   *)
(***************************************************************************)
KeywordColumns ==
    {[matched_keywords |-> NULL, matched_keyword_groups |-> NULL],
     [matched_keywords |-> "AI", matched_keyword_groups |-> "G1"]}

WithKeywords(c, kw) ==
    [c EXCEPT !.matched_keywords = kw.matched_keywords,
              !.matched_keyword_groups = kw.matched_keyword_groups]

InitEnrich ==
    /\ source = [s \in Sources |-> NewSource]
    /\ \E k1, k2 \in KeywordColumns :
            contents = {WithKeywords(NewContent(<<1, 1>>, "s1", "h1"), k1),
                        WithKeywords(NewContent(<<2, 1>>, "s2", "h2"), k2)}
    /\ jobs = <<>>
    /\ tasks = [t \in Tasks |-> IdleTask]
    /\ dispatched = 0
    /\ ptasks = [j \in Jobs |-> IdleJob]
    /\ now = 1
    /\ AIIdle

NextEnrich ==
    \/ process_pending_content
    \/ \E j \in Jobs : LoadContent(j)
    \/ \E j \in Jobs, resp \in AIResponses : process_content(j, resp)

SpecEnrich == InitEnrich /\ [][NextEnrich]_vars

\* The beat schedule runs process_pending_content every 30 minutes, and a
\* worker takes every task of its queue and runs it to its end.
FairEnrich ==
    /\ WF_vars(process_pending_content)
    /\ \A j \in Jobs : WF_vars(LoadContent(j))
    /\ \A j \in Jobs : WF_vars(\E resp \in AIResponses : process_content(j, resp))

SpecEnrichFair == InitPipeline /\ [][NextEnrich]_vars /\ FairEnrich

(***************************************************************************)
(* Properties of the enrich and notify stages.                             *)
(***************************************************************************)
StatusRank(st) ==
    CASE st = "new" -> 0
      [] st = "processed" -> 1
      [] st = "notified" -> 2
      [] st = "archived" -> 3

\* C9: no step changes the status of a content item to an earlier value of
\* new -> processed -> notified -> archived.
C9_StatusMonotonic ==
    [][\A c \in contents : \A d \in contents' :
            c.id = d.id => StatusRank(d.status) >= StatusRank(c.status)]_vars

\* C10: send_notifications for an item whose status is not processed is a
\* no-op: nothing is sent and status and notified_at stay as they are.
C10_NotifyOnlyProcessed ==
    [][\A j \in Jobs :
        (/\ ptasks[j].kind = "notify"
         /\ ptasks[j].pc = "running"
         /\ ptasks'[j].pc = "done"
         /\ ptasks[j].loaded.status # "processed")
            => contents' = contents]_vars

\* C11: send_notifications marks an item notified only when its notification
\* succeeded: when the delivery to an applicable channel failed, a processed
\* item stays processed and its notified_at stays unset.
C11_NotifiedOnlyOnSuccess ==
    [][\A j \in Jobs :
        (/\ ptasks[j].kind = "notify"
         /\ ptasks[j].pc = "running"
         /\ ptasks'[j].pc = "done"
         /\ ptasks'[j].results = "failed"
         /\ Row(ptasks[j].content).status = "processed")
            => \E d \in contents' :
                    /\ d.id = ptasks[j].content
                    /\ d.status = "processed"
                    /\ d.notified_at = Row(ptasks[j].content).notified_at]_vars

\* The request failed, or no JSON object could be read from the response.
AnalysisFailed(resp) ==
    \/ resp.error # "none"
    \/ resp.form \in {"broken", "text"}

\* C12: AIContentProcessor.process never raises: when the orchestrator failed
\* or the response holds no JSON, process returns the default-neutral result
\* and process_content ends with the content processed (a content loaded as
\* new is stored as processed, and no content is new afterwards).
C12_DefaultOnFailure ==
    [][\A j \in Jobs :
        (/\ ptasks[j].kind = "process"
         /\ ptasks[j].pc = "running"
         /\ ptasks'[j].pc = "done"
         /\ AnalysisFailed(ptasks'[j].response))
            => /\ ptasks'[j].result =
                    [summary |-> NULL, categories |-> {}, entities |-> {},
                     sentiment |-> "neutral", relevance_score |-> 5,
                     importance_score |-> 5, key_topics |-> {}]
               /\ \E d \in contents' :
                    /\ d.id = ptasks[j].content
                    /\ d.status # "new"
                    /\ ptasks[j].loaded.status = "new" => d.status = "processed"]_vars

\* A new content was processed while no provider was available: it is stored
\* processed with the default scores.
C12_Witness ==
    \E j \in Jobs : \E d \in contents :
        /\ ptasks[j].kind = "process"
        /\ ptasks[j].pc = "done"
        /\ ptasks[j].response = [NoResponse EXCEPT !.error = "No AI providers available"]
        /\ d.id = ptasks[j].content
        /\ d.status = "processed"
        /\ d.importance_score = 5
        /\ d.sentiment = "neutral"

\* C13: every score stored on a content lies in [0,1] (0..10 tenths), and a
\* reported score x is stored as min(1, max(0, x)): 1.7 as 1.0, -0.3 as 0.0.
C13_ScoresClamped ==
    /\ \A c \in contents :
            /\ c.relevance_score # NoScore => c.relevance_score \in 0..10
            /\ c.importance_score # NoScore => c.importance_score \in 0..10
    /\ \A j \in Jobs :
            (ptasks[j].kind = "process" /\ ptasks[j].pc = "done"
                /\ ptasks[j].response.form \in {"json", "embedded"}
                /\ ptasks[j].response.score.kind = "number")
            => LET x == ptasks[j].response.score.value
                   y == IF x < 0 THEN 0 ELSE IF x > 10 THEN 10 ELSE x
               IN /\ ptasks[j].result.relevance_score = y
                  /\ ptasks[j].result.importance_score = y

\* A response reporting 1.7 was stored as 1.0.
C13_Witness ==
    \E j \in Jobs : \E d \in contents :
        /\ ptasks[j].kind = "process" /\ ptasks[j].pc = "done"
        /\ ptasks[j].response.score = [kind |-> "number", value |-> 17]
        /\ d.id = ptasks[j].content
        /\ d.importance_score = 10
        /\ d.relevance_score = 10

(***************************************************************************)
(* Properties of AIOrchestrator.request.                                   *)
(***************************************************************************)
\* The request does not use a preferred provider.
NoPreferred == req.preferred = NULL \/ req.preferred \notin available

\* The available providers of the task of the request, in the configured order.
TaskOrder == Filter(TASK_PROVIDER_MAP[req.task_type], available)

\* C14: request invokes the available providers of the task in the configured
\* order, each at most once; every provider before the last one invoked
\* failed and is recorded as failed; a success ends the request with the
\* response of that provider, and no provider after it is invoked.
C14_FirstSuccessInOrder ==
    (req.pc # "idle" /\ NoPreferred) =>
        LET n == Len(req.invoked) IN
        /\ n <= Len(TaskOrder)
        /\ \A k \in 1..n : req.invoked[k].provider = TaskOrder[k]
        /\ \A k \in 1..n, m \in 1..n :
                req.invoked[k].provider = req.invoked[m].provider => k = m
        /\ \A k \in 1..(n - 1) : req.invoked[k].outcome # "ok"
        /\ \A k \in 1..n :
                req.invoked[k].outcome # "ok"
                    => k <= Len(req.failed) /\ req.failed[k] = req.invoked[k].provider
        /\ (n >= 1 /\ req.invoked[n].outcome = "ok")
                => /\ req.pc = "returned"
                   /\ req.response = req.invoked[n].provider
                   /\ Len(req.failed) = n - 1
        /\ req.pc = "returned" => (n >= 1 /\ req.invoked[n].outcome = "ok")

\* With the order [anthropic, openai, google], anthropic failed and openai
\* returned: the response is the one of openai and google was not invoked.
C14_Witness ==
    /\ req.pc = "returned"
    /\ req.preferred = NULL
    /\ req.providers = <<"anthropic", "openai", "google">>
    /\ req.invoked = <<[provider |-> "anthropic", outcome |-> "raise"],
                       [provider |-> "openai", outcome |-> "ok"]>>
    /\ req.response = "openai"
    /\ req.failed = <<"anthropic">>

\* C15: when no provider of the task's list is available and no available
\* preferred provider is given, request raises the no-provider error and
\* complete is not invoked on any provider.
C15_NoProviderAvailable ==
    (/\ req.pc # "idle"
     /\ NoPreferred
     /\ \A p \in Range(TASK_PROVIDER_MAP[req.task_type]) : p \notin available)
        => /\ req.pc = "raised"
           /\ req.error = "No AI providers available"
           /\ req.invoked = <<>>

\* A key is configured, but of no provider of the task: the request raised.
C15_Witness ==
    /\ req.pc = "raised"
    /\ req.error = "No AI providers available"
    /\ req.task_type = "search"
    /\ available = {"anthropic"}
    /\ req.invoked = <<>>

\* C16: when every provider tried failed, by raising or by the timeout, the
\* request raises the all-failed error with the error of the last provider
\* tried, after trying every provider of its list; a timeout is followed by
\* the next provider like any other failure.
C16_AllProvidersFailed ==
    LET n == Len(req.invoked) IN
    /\ (/\ req.pc \in {"returned", "raised"}
        /\ n >= 1
        /\ \A k \in 1..n : req.invoked[k].outcome # "ok")
            => /\ req.pc = "raised"
               /\ req.error = "All AI providers failed"
               /\ n = Len(req.providers)
               /\ req.last_error.provider = req.invoked[n].provider
               /\ req.last_error.kind =
                    (IF req.invoked[n].outcome = "timeout"
                     THEN "TimeoutError" ELSE "Exception")
    /\ \A k \in 1..n :
            (req.invoked[k].outcome = "timeout" /\ k < Len(req.providers))
                => \/ n > k
                   \/ (req.pc = "loop" /\ req.i = k + 1)

\* The first provider timed out, the second was tried and raised, and the
\* request failed with the error of the second.
C16_Witness ==
    /\ req.pc = "raised"
    /\ req.error = "All AI providers failed"
    /\ Len(req.invoked) = 2
    /\ req.invoked[1].outcome = "timeout"
    /\ req.invoked[2].outcome = "raise"
    /\ req.last_error = [provider |-> req.invoked[2].provider, kind |-> "Exception"]

\* C17: with a preferred provider that is available, request invokes only
\* that provider, and fails when it fails; with a preferred provider that is
\* not available, request uses the available providers of the task.
C17_PreferredOnly ==
    (req.pc # "idle" /\ req.preferred # NULL) =>
        IF req.preferred \in available
        THEN /\ req.providers = <<req.preferred>>
             /\ Len(req.invoked) <= 1
             /\ \A k \in 1..Len(req.invoked) : req.invoked[k].provider = req.preferred
             /\ (Len(req.invoked) = 1 /\ req.invoked[1].outcome # "ok")
                    => (req.pc = "raised" /\ req.response = NULL)
        ELSE req.providers = TaskOrder

\* The preferred provider failed and the request failed, although another
\* provider of the task was available.
C17_Witness ==
    /\ req.pc = "raised"
    /\ req.preferred = "google"
    /\ req.task_type = "summarize"
    /\ available = {"openai", "google"}
    /\ req.invoked = <<[provider |-> "google", outcome |-> "raise"]>>

(***************************************************************************)
(* Properties of AIOrchestrator.request_parallel.                          *)
(***************************************************************************)
\* The providers of the call that are available, in the order of the list
\* (of the clients when no list is given).
ParallelAsked ==
    Filter(IF par.given = NoList THEN ClientOrder ELSE par.given, available)

\* C18: request_parallel never raises for a failed or timed out provider:
\* it asks exactly the available providers of the list, and returns exactly
\* the responses of those that succeeded, in their order.
C18_ParallelDropsFailures ==
    par.pc # "idle" =>
        /\ par.pc \in {"gather", "returned"}
        /\ par.tasks = ParallelAsked
        /\ Len(par.results) = Len(par.tasks)
        /\ par.pc = "returned" <=> (\A k \in DOMAIN par.results : par.results[k] # "pending")
        /\ par.pc = "returned" =>
                /\ Len(par.responses) =
                        Cardinality({k \in DOMAIN par.results : par.results[k] = "ok"})
                /\ \A k \in DOMAIN par.responses :
                        \E m \in DOMAIN par.tasks :
                            /\ par.results[m] = "ok"
                            /\ par.tasks[m] = par.responses[k]
                            /\ Cardinality({n \in 1..m : par.results[n] = "ok"}) = k

\* One provider of the list was not available, one timed out and one
\* answered: the call returned the one response.
C18_Witness ==
    /\ par.pc = "returned"
    /\ par.given = <<"anthropic", "perplexity", "openai">>
    /\ available = {"anthropic", "openai"}
    /\ par.results = <<"timeout", "ok">>
    /\ par.responses = <<"openai">>

(***************************************************************************)
(* Properties of AIOrchestrator.collaborate.                               *)
(***************************************************************************)
\* The prompt of step k: its template with the initial prompt (k = 1) or the
\* content of the response of step k - 1 in the place of the placeholder.
StepPrompt(k) ==
    Format(collab.pipeline[k].template,
           IF k = 1 THEN collab.initial_prompt ELSE collab.responses[k - 1].content)

\* C19: collaborate runs its steps in order: the responses so far are those
\* of the first steps, each asked with the prompt of its step; the one
\* request in progress is that of the next step, with its prompt; and the
\* returned list holds one response per step.
C19_StepsInOrder ==
    collab.pc # "idle" =>
        LET n == Len(collab.responses) IN
        /\ n <= Len(collab.pipeline)
        /\ \A k \in 1..n :
                /\ collab.responses[k].prompt = StepPrompt(k)
                /\ collab.responses[k].task_type = collab.pipeline[k].task_type
        /\ collab.pc = "running" =>
                /\ n < Len(collab.pipeline)
                /\ req.pc = "loop"
                /\ req.prompt = StepPrompt(n + 1)
                /\ req.task_type = collab.pipeline[n + 1].task_type
        /\ collab.pc = "returned" => (n = Len(collab.pipeline) /\ req.pc = "idle")

\* Two steps returned; the second was asked with the content of the first in
\* both places of its template, the placeholder text of the content kept.
C19_Witness ==
    /\ collab.pc = "returned"
    /\ Len(collab.responses) = 2
    /\ collab.responses[1].prompt = <<"Search for:", "Latest", "news">>
    /\ collab.responses[1].content = <<"s", Placeholder>>
    /\ collab.responses[2].prompt = <<"s", Placeholder, "or", "s", Placeholder>>

(***************************************************************************)
(* Properties of KeywordMatcher.match.                                     *)
(***************************************************************************)
\* The results the taxonomy and the text call for: one for each pair whose
\* keyword or one of whose synonyms is a word of the text, exact with score
\* 1.0 when the keyword is, else synonym with score 0.9.
Matching(T, text) ==
    {MatchResult(pair, "exact", 10) :
        pair \in {x \in Pairs(T) : Occurs(Lower(x[2]), text)}}
    \cup
    {MatchResult(pair, "synonym", 9) :
        pair \in {x \in Pairs(T) :
                    /\ ~Occurs(Lower(x[2]), text)
                    /\ \E sy \in T[x[1]][x[2]].synonyms : Occurs(Lower(sy), text)}}

\* C20: with semantic matching disabled, match returns exactly one result for
\* each (group, keyword) pair of the taxonomy whose keyword or synonym is a
\* word of the text, with score 1.0 (exact) or 0.9 (synonym), and no other.
C20_MatchesEveryPair ==
    matcher.pc = "done" => matcher.results = Matching(matcher.keywords, matcher.text)

\* C21: the list match returns is sorted by score in non-increasing order, so
\* every exact match (1.0) precedes every synonym match (0.9).
C21_SortedByScore ==
    matcher.pc = "done" =>
        \A i, j \in DOMAIN matcher.final_results :
            i < j => matcher.final_results[i].score >= matcher.final_results[j].score

\* A match that returned an exact result and, for another keyword, a synonym
\* result.
C21_Witness ==
    /\ matcher.pc = "done"
    /\ \E i, j \in DOMAIN matcher.final_results :
            /\ matcher.final_results[i].match_type = "exact"
            /\ matcher.final_results[j].match_type = "synonym"
            /\ matcher.final_results[i].keyword # matcher.final_results[j].keyword

\* The list and the set of match hold the same results.
ListIsResults ==
    matcher.pc = "done" =>
        /\ Range(matcher.final_results) = matcher.results
        /\ Len(matcher.final_results) = Cardinality(matcher.results)

(***************************************************************************)
(* One source followed in detail: the executions of crawl_source            *)
(* (scheduler/tasks.py) one at a time, BaseCrawler.crawl step by step       *)
(* (crawlers/base.py), and the clock.                                       *)
(***************************************************************************)
MaxTime == 3             \* the clock stops here
MaxCrawls == 2           \* executions of crawl_source
MaxEntries == 2          \* entries of a fetched document
CrawlInterval == 2       \* Source.crawl_interval_minutes, in clock ticks

\* settings.crawler_max_retries
crawler_max_retries == 3

\* SourceType.RSS, and the types crawled by WebNewsCrawler
SourceTypes == {"rss", "web"}

\* The layout of the page the site serves, and the list selectors a source
\* can be configured with: none, one written for a former layout, one for
\* the layout served.
Layout == "new"
Selectors == {NULL, "old", "new"}

\* The entries of a feed (or the list items of a page): link, title and
\* summary; an entry without a link is one _parse_entry drops.
Entries ==
    {[link |-> "a", title |-> "b", summary |-> "c"],
     [link |-> "ab", title |-> "c", summary |-> NULL],
     [link |-> "", title |-> "c", summary |-> NULL]}

EntryLists == UNION {[1..n -> Entries] : n \in 0..MaxEntries}

\* The documents a successful GET of the source's url can return.
Documents(source_type) ==
    {[layout |-> IF source_type = "rss" THEN "feed" ELSE Layout, entries |-> es] :
        es \in EntryLists}

\* What one GET can meet: a 2xx response, a transport failure, or a status
\* for which raise_for_status raises.
FetchOutcomes == {"ok", "transport", "http404", "http429", "http500"}

\* What ai.request(prompt, task_type=EXTRACT) can do for a self-heal: raise,
\* answer with text that is not JSON, answer with the selectors as JSON.
HealResponses == {"raise", "text", "json"}

\* The triggers of a crawl: the periodic crawl_all_sources, POST
\* /sources/{id}/crawl, POST /schedules/{id}/run.
Origins == {"poll", "api", "schedule"}

CrawlResult(entry) ==
    [url |-> entry.link, title |-> entry.title, content |-> entry.summary]

\* CrawlResult.content_hash: sha256 of url + title + (content or ''); the
\* digest stands for the string it digests.
content_hash(result) ==
    result.url \o result.title \o (IF result.content = NULL THEN "" ELSE result.content)

\* _parse_entry / _parse_item for each entry: None without url or title.
ParseEntries(entries) ==
    LET kept == SelectSeq(entries, LAMBDA e : e.link # "" /\ e.title # "")
    IN [i \in DOMAIN kept |-> CrawlResult(kept[i])]

\* RSSCrawler.parse: every entry of the feed.  WebNewsCrawler.parse: nothing
\* without a list selector, nothing when the selector selects no item.
parse(c, html) ==
    IF c.source_type = "rss" THEN ParseEntries(html.entries)
    ELSE IF c.config.list_selector = NULL THEN <<>>
    ELSE IF c.config.list_selector # html.layout THEN <<>>
    ELSE ParseEntries(html.entries)

\* RSSCrawler(source_id, url) / WebNewsCrawler(source_id, url,
\* CrawlerConfig(**(source.config or {}))), and crawl() entered.
NewCrawler(row) ==
    [IdleCrawler EXCEPT !.pc = "fetch", !.source_type = row.source_type,
                        !.config = IF row.source_type = "rss"
                                   THEN CrawlerConfig(NULL) ELSE row.config]

\* _get_client: the client is created if self._client is None.
GetClient(c) ==
    IF c.client = "open" THEN c
    ELSE [c EXCEPT !.client = "open", !.clients = @ + 1]

\* One GET of fetch, under @retry(stop=stop_after_attempt(crawler_max_retries)).
Attempt(c, outcome) ==
    [GetClient(c) EXCEPT !.attempt = @ + 1, !.last = outcome]

\* close(): aclose() on the client, if there is one, and self._client = None.
Close(c) == IF c.client = "open" THEN [c EXCEPT !.client = "closed"] ELSE c

\* The fetch call has ended, by return or by exception.
Fetched(c) == [c EXCEPT !.attempt = 0, !.last = "none"]

\* (a variant in which the new config replaces the crawler's, as
\* analyze_and_configure does)
HealReturnsInstalls(c, response) ==
    IF response = "json"
    THEN [c EXCEPT !.pc = "raised", !.new_config = CrawlerConfig(Layout),
                   !.config = CrawlerConfig(Layout)]
    ELSE [c EXCEPT !.pc = "raised"]

\* _attempt_self_heal after ai.request: json.loads(response.content) and the
\* new CrawlerConfig, or None on any exception; crawl() drops the value and
\* re-raises.
HealReturns(c, response) ==
    IF response = "json"
    THEN [c EXCEPT !.pc = "raised", !.new_config = CrawlerConfig(Layout)]
    ELSE [c EXCEPT !.pc = "raised"]

\* The results whose Content row the loop adds: the duplicate check sees the
\* stored rows and, through the autoflush, the rows added before.
SavedItems(hashes, stored) ==
    {i \in DOMAIN hashes :
        /\ hashes[i] \notin stored
        /\ Autoflush => \A j \in 1..(i - 1) : hashes[j] # hashes[i]}

\* (a variant that records the two counters in each other's column)
CompletedJobSwapped(job, collected, saved, at) ==
    [job EXCEPT !.status = "completed", !.finished_at = at,
                !.items_collected = saved, !.items_saved = collected]

\* job.status = COMPLETED; finished_at, items_collected, items_saved
CompletedJob(job, collected, saved, at) ==
    [job EXCEPT !.status = "completed", !.finished_at = at,
                !.items_collected = collected, !.items_saved = saved]

\* job.status = FAILED; finished_at, error_message
FailedJob(job, err, at) ==
    [job EXCEPT !.status = "failed", !.finished_at = at, !.error_message = err]

restVars ==
    <<source, contents, jobs, tasks, dispatched, ptasks, available, req, par,
      collab, matcher>>

\* crawl_source.delay(source_id) by a trigger; the periodic one selects the
\* sources with status ACTIVE.  No trigger reads last_crawled_at or
\* crawl_interval_minutes.
Enqueue(origin) ==
    /\ execution.pc = "idle"
    /\ db.crawls < MaxCrawls
    /\ origin = "poll" => db.source.status = "active"
    /\ execution' = [execution EXCEPT !.pc = "queued", !.origin = origin,
                                      !.retries = 0]
    /\ UNCHANGED <<crawler, db, now, restVars>>

\* A worker takes the message: db.get(Source), JobExecution(RUNNING,
\* started_at), the crawler for the source type, crawler.crawl() entered.
BeginCrawl ==
    /\ execution.pc = "queued"
    /\ db.crawls < MaxCrawls
    /\ execution' = [execution EXCEPT !.pc = "crawling", !.loaded = db.source,
                                      !.job = JobExecution(now)]
    /\ crawler' = NewCrawler(db.source)
    /\ db' = [db EXCEPT !.crawls = @ + 1]
    /\ UNCHANGED <<now, restVars>>

\* crawl(): html = await self.fetch(), one GET.  A 2xx response is parsed and
\* crawl returns the results; any exception is retried until the attempts are
\* spent, then the except branch of crawl runs: str(e) does not hold "parse",
\* parse("") is empty, so _attempt_self_heal is entered.
fetch(outcome, html) ==
    LET c == Attempt(crawler, outcome) IN
    /\ execution.pc = "crawling"
    /\ crawler.pc = "fetch"
    /\ IF outcome = "ok" THEN html \in Documents(crawler.source_type)
       ELSE html = EmptyDocument
    /\ crawler' =
         IF outcome = "ok"
         THEN [Fetched(c) EXCEPT !.pc = "returned", !.results = parse(c, html)]
         ELSE IF c.attempt < crawler_max_retries THEN c
         ELSE IF Len(parse(c, EmptyDocument)) = 0
         THEN [Fetched(c) EXCEPT !.pc = "heal_fetch", !.exc = "RetryError",
                                 !.heals = @ + 1]
         ELSE [Fetched(c) EXCEPT !.pc = "raised", !.exc = "RetryError"]
    /\ UNCHANGED <<execution, db, now, restVars>>

\* _attempt_self_heal: html = await self.fetch(), one GET.  With the page at
\* hand ai.request is called; with the attempts spent the except branch
\* returns None and crawl re-raises.
heal_fetch(outcome) ==
    LET c == Attempt(crawler, outcome) IN
    /\ execution.pc = "crawling"
    /\ crawler.pc = "heal_fetch"
    /\ crawler' =
         IF outcome = "ok"
         THEN [Fetched(c) EXCEPT !.pc = "request", !.model_calls = @ + 1]
         ELSE IF c.attempt < crawler_max_retries THEN c
         ELSE [Fetched(c) EXCEPT !.pc = "raised"]
    /\ UNCHANGED <<execution, db, now, restVars>>

\* ai.request returns or raises.
heal_response(response) ==
    /\ execution.pc = "crawling"
    /\ crawler.pc = "request"
    /\ crawler' = HealReturns(crawler, response)
    /\ UNCHANGED <<execution, db, now, restVars>>

\* crawl() returned: the save loop, the source marked crawled, the job
\* completed, crawler.close() (the results are dropped with the crawler), and
\* the block commits.
CrawlReturns ==
    LET hashes == [i \in DOMAIN crawler.results |-> content_hash(crawler.results[i])]
        saved == SavedItems(hashes, db.hashes)
        job == CompletedJob(execution.job, Len(crawler.results),
                            Cardinality(saved), now)
    IN
    /\ execution.pc = "crawling"
    /\ crawler.pc = "returned"
    /\ db' = [db EXCEPT !.source.last_crawled_at = now,
                         !.source.error_count = 0,
                         !.source.status = "active",
                         !.hashes = @ \cup {hashes[i] : i \in saved}]
    /\ execution' = [execution EXCEPT !.pc = "idle", !.origin = "none",
                                      !.retries = 0, !.job = job]
    /\ crawler' = [Close(crawler) EXCEPT !.pc = "closed", !.results = <<>>]
    /\ UNCHANGED <<now, restVars>>

\* crawl() raised: the except branch counts the error, fails the job and
\* asks for a retry; the block is left.
CrawlRaises ==
    LET ec == db.source.error_count + 1
        job == FailedJob(execution.job, crawler.exc, now)
    IN
    /\ execution.pc = "crawling"
    /\ crawler.pc = "raised"
    /\ IF CommitOnError
       THEN db' = [db EXCEPT !.source.error_count = ec,
                             !.source.last_error = crawler.exc,
                             !.source.status = IF ec >= ErrorThreshold
                                               THEN "error" ELSE @]
       ELSE UNCHANGED db
    /\ execution' = IF execution.retries < max_retries
                    THEN [execution EXCEPT !.pc = "queued", !.retries = @ + 1,
                                           !.job = job]
                    ELSE [execution EXCEPT !.pc = "idle", !.origin = "none",
                                           !.retries = 0, !.job = job]
    /\ UNCHANGED <<crawler, now, restVars>>

\* Time passes.
Tick ==
    /\ now < MaxTime
    /\ now' = now + 1
    /\ UNCHANGED <<healVars, restVars>>

\* The source as created: a feed, or a page with or without a list selector.
InitHeal ==
    /\ source = [s \in Sources |-> NewSource]
    /\ contents = {}
    /\ jobs = <<>>
    /\ tasks = [t \in Tasks |-> IdleTask]
    /\ dispatched = 0
    /\ ptasks = [j \in Jobs |-> IdleJob]
    /\ now = 1
    /\ available = {}
    /\ req = IdleRequest
    /\ par = IdleParallel
    /\ collab = IdleCollab
    /\ matcher = IdleMatcher
    /\ crawler = IdleCrawler
    /\ execution = IdleExecution
    /\ \E st \in SourceTypes, sel \in Selectors :
            /\ st = "rss" => sel = NULL
            /\ db = [EmptyDb EXCEPT
                        !.source = NewSourceRow(st, CrawlerConfig(sel), CrawlInterval)]

NextHeal ==
    \/ \E origin \in Origins : Enqueue(origin)
    \/ BeginCrawl
    \/ \E outcome \in FetchOutcomes,
          html \in {EmptyDocument} \cup UNION {Documents(st) : st \in SourceTypes} :
            fetch(outcome, html)
    \/ \E outcome \in FetchOutcomes : heal_fetch(outcome)
    \/ \E response \in HealResponses : heal_response(response)
    \/ CrawlReturns
    \/ CrawlRaises
    \/ Tick

SpecHeal == InitHeal /\ [][NextHeal]_vars

(***************************************************************************)
(* Properties of the crawler and of the executions that drive it.          *)
(***************************************************************************)
\* The crawl() call of the execution has ended, by return or by exception.
CrawlEnded == crawler.pc \in {"returned", "raised", "closed"}

\* The crawler parses a page with a list selector.
SelectorBased(c) == c.source_type = "web" /\ c.config.list_selector # NULL

\* C22: when crawl() fetches successfully, parsing returns zero results and
\* the source is selector-based, crawl invokes the self-heal step.
C22_EmptyParseHeals ==
    (crawler.pc = "returned" /\ SelectorBased(crawler) /\ crawler.results = <<>>)
        => crawler.heals >= 1

\* C23: after a crawl during which a self-heal produced a new config, the
\* Source holds the new selectors in ai_generated_config and its
\* config_version is one higher than before the crawl.
C23_HealedConfigPersisted ==
    (execution.pc # "crawling" /\ CrawlEnded /\ crawler.new_config # NoConfig) =>
        /\ db.source.ai_generated_config = crawler.new_config
        /\ db.source.config_version = execution.loaded.config_version + 1

\* C24: every JobExecution row, open or closed, has items_saved <=
\* items_collected, and finished_at >= started_at when both are set.
C24_JobCountersAndTimes ==
    /\ execution.job.items_saved <= execution.job.items_collected
    /\ (execution.job.started_at # NoTime /\ execution.job.finished_at # NoTime)
            => execution.job.finished_at >= execution.job.started_at

\* A completed job that saved an item, skipped a duplicate and ended after
\* the clock moved.
C24_Witness ==
    /\ execution.job.status = "completed"
    /\ execution.job.items_saved < execution.job.items_collected
    /\ execution.job.items_saved > 0
    /\ execution.job.finished_at > execution.job.started_at

\* C25: the results returned by one RSSCrawler.crawl() call have pairwise
\* distinct content_hash values, whatever entries the feed holds.
C25_DistinctHashes ==
    (crawler.pc = "returned" /\ crawler.source_type = "rss") =>
        \A i, j \in DOMAIN crawler.results :
            i # j => content_hash(crawler.results[i]) # content_hash(crawler.results[j])

\* C26: a crawl of a selector-based source that yields zero items is recorded
\* as a failed crawl: its job does not end completed.
C26_ZeroItemsIsFailure ==
    (SelectorBased(crawler) /\ execution.pc # "crawling"
        /\ crawler.pc = "closed" /\ execution.job.items_collected = 0) =>
        /\ execution.job.status = "failed"
        /\ db.source.error_count = execution.loaded.error_count + 1

\* C27: self-heal calls the model only when the fetch of crawl() succeeded,
\* parsing returned zero results and the source is selector-based: never
\* after a failed fetch, never for a feed source.
C27_HealOnlyAfterEmptyParse ==
    crawler.model_calls > 0 => (SelectorBased(crawler) /\ crawler.exc = "none")

\* C28: in one crawl() call self-heal is attempted at most once, and when it
\* produced a new config the call still ends as the original fetch-and-parse
\* did (it raises that exception and returns no results) with the config the
\* crawler was constructed with.
C28_HealOnceNoRescue ==
    /\ crawler.heals <= 1
    /\ (crawler.new_config # NoConfig) =>
            /\ crawler.pc = "raised"
            /\ crawler.exc = "RetryError"
            /\ crawler.results = <<>>
            /\ crawler.config = NewCrawler(execution.loaded).config

\* A crawl() call of a page source whose self-heal produced selectors that
\* differ from the crawler's.
C28_Witness ==
    /\ crawler.pc = "raised"
    /\ crawler.heals = 1
    /\ crawler.new_config = CrawlerConfig(Layout)
    /\ crawler.config = CrawlerConfig("old")

\* C29: a 4xx response other than 429 is not retried: the fetch call does not
\* go on after it.
C29_ClientErrorNotRetried ==
    crawler.pc \in {"fetch", "heal_fetch"} => crawler.last # "http404"

\* C30: no crawl of the source is executed when less than its
\* crawl_interval_minutes has passed since its last_crawled_at.
C30_IntervalRespected ==
    (execution.pc = "crawling" /\ execution.loaded.last_crawled_at # NoTime) =>
        execution.job.started_at - execution.loaded.last_crawled_at
            >= execution.loaded.crawl_interval_minutes

(***************************************************************************)
(* Properties of the job log, the retries and the HTTP client.             *)
(***************************************************************************)
\* The executions of crawl_source that have ended: a message with retries = n
\* stands for n executions that asked for a retry, a done task for one more.
EndedExecutions(t) ==
    IF tasks[t].pc = "idle" THEN 0
    ELSE tasks[t].retries + (IF tasks[t].pc = "done" THEN 1 ELSE 0)

RECURSIVE SumEnded(_)
SumEnded(S) ==
    IF S = {} THEN 0
    ELSE LET t == CHOOSE u \in S : TRUE IN EndedExecutions(t) + SumEnded(S \ {t})

\* C31: every execution of crawl_source that has ended has left one
\* JobExecution row in the log, and that row is closed (completed or failed,
\* never running): the log holds as many rows as executions have ended.
C31_EveryExecutionLogged ==
    /\ Len(jobs) = SumEnded(Tasks)
    /\ \A k \in DOMAIN jobs : jobs[k].status \in {"completed", "failed"}

\* C32: an execution of crawl_source whose crawl fails asks for a retry while
\* the task has been retried fewer than 3 times, and ends the task with the
\* failure once it has been retried 3 times: at most 4 executions in total.
C32_AtMostThreeRetries ==
    [][\A t \in Tasks :
          tasks[t].pc = "crawl" /\ tasks'[t].pc \in {"queued", "done"}
          => IF tasks[t].retries < 3
             THEN /\ tasks'[t].pc = "queued"
                  /\ tasks'[t].retries = tasks[t].retries + 1
             ELSE /\ tasks[t].retries = 3
                  /\ tasks'[t].pc = "done"
                  /\ tasks'[t].exc = "crawl"]_vars

\* A task has ended with the failure of its fourth execution.
C32_Witness ==
    \E t \in Tasks :
        /\ tasks[t].pc = "done"
        /\ tasks[t].exc = "crawl"
        /\ tasks[t].retries = 3
        /\ EndedExecutions(t) = 4

\* C33: a crawler instance creates at most one HTTP client, and once the
\* execution of crawl_source that built it has ended, successfully or with a
\* crawl failure, the client is not left open.
C33_ClientReleased ==
    /\ crawler.clients <= 1
    /\ execution.pc # "crawling" /\ crawler.pc \in {"closed", "raised"}
       => crawler.client # "open"

NotifyDispatched ==
    {j \in Jobs : /\ ptasks[j].pc = "idle"
                  /\ ptasks'[j].pc = "queued"
                  /\ ptasks'[j].kind = "notify"}

Enrichment(c) ==
    <<c.summary, c.categories, c.entities, c.sentiment, c.relevance_score,
      c.importance_score>>

\* C37: a content with status new has every enrichment column (summary,
\* categories, entities, sentiment, relevance_score, importance_score) null,
\* and these columns change only in a step of process_content, the step that
\* sets the status to processed: the item is not new after it.
C37_NewHasNoEnrichment ==
    /\ [](\A c \in contents :
            c.status = "new" => Enrichment(c) = Enrichment(NewContent(c.id, "s1", "h1")))
    /\ [][\A c \in contents : \A d \in contents' :
            c.id = d.id /\ Enrichment(d) # Enrichment(c)
            => /\ d.status # "new"
               /\ \E j \in Jobs : /\ ptasks[j].pc = "running"
                                  /\ ptasks[j].kind = "process"
                                  /\ ptasks[j].content = c.id
                                  /\ ptasks'[j].pc = "done"]_vars

\* One item is still new and without enrichment, the other one is processed
\* and carries the result of the analysis.
C37_Witness ==
    /\ \E c \in contents : c.status = "new" /\ c.summary = NULL
    /\ \E c \in contents : /\ c.status = "processed"
                           /\ c.summary # NULL
                           /\ c.categories # NoJSON
                           /\ c.importance_score # NoScore

\* The status of the content with this id.
StatusOf(id) == Row(id).status

\* C38: while the periodic enrich stage keeps running and every dispatched
\* task is executed, every content stored with status new is processed in
\* the end (a failed analysis leaves the default result, not a failed task).
C38_NewEventuallyProcessed ==
    \A id \in {<<1, 1>>, <<2, 1>>} :
        (StatusOf(id) = "new") ~> (StatusOf(id) = "processed")

\* Both items are processed, one of them with the default result of a failed
\* analysis.
C38_Witness ==
    /\ \A c \in contents : c.status = "processed"
    /\ \E c \in contents : c.summary = NULL /\ c.importance_score = 5
    /\ \E c \in contents : c.summary # NULL

\* C39: process_content records no keyword matches: after it the
\* matched_keywords of the item are null, whatever they were, and its
\* matched_keyword_groups are what they were.
C39_NoKeywordsRecorded ==
    [][\A j \in Jobs :
          (/\ ptasks[j].pc = "running"
           /\ ptasks[j].kind = "process"
           /\ ptasks'[j].pc = "done")
          => \A d \in contents' :
                d.id = ptasks[j].content
                => /\ d.matched_keywords = NULL
                   /\ d.matched_keyword_groups = Row(d.id).matched_keyword_groups]_vars

\* An item that carried keywords and groups has been processed: the keywords
\* are gone, the groups are still there.
C39_Witness ==
    \E c \in contents :
        /\ c.status = "processed"
        /\ c.matched_keywords = NULL
        /\ c.matched_keyword_groups = "G1"

====
